---- MODULE Spec2Model ----
(***************************************************************************)
(* lnwasi: a rtnetlink client library.                                     *)
(*                                                                         *)
(* Part 1  the transaction driver, SocketHandle (src/src/handle.rs), with  *)
(*         the verbs that call execute and a kernel on the other side of   *)
(*         the socket.                                                     *)
(* Part 2  the request builder, NetlinkRequest (src/src/request.rs), with  *)
(*         the payloads it serializes (src/src/message.rs).                *)
(*                                                                         *)
(* Numbers are the code's: a u32 is kept as two 16-bit limbs <<hi, lo>>    *)
(* because the model checker's integers are 32-bit signed; byte strings    *)
(* are sequences over 0..255. Part 1 runs on a little-endian host; Part 2  *)
(* takes the host's byte order as a parameter of the build.                *)
(***************************************************************************)
EXTENDS Integers, Sequences, FiniteSets, TLC

VARIABLES
    seq,        \* SocketHandle.seq: u32, as limbs <<hi, lo>>
    build,      \* "release" (u32 += wraps) or "debug" (u32 += panics on overflow)
    kmode,      \* what the peer may put on the socket: "any" or "rtnetlink"
    pc,         \* where the handle's thread is: "idle" | "call" | "recv" | "for" |
                \*   "ret", or "panic" once it has panicked
    verb,       \* the verb being run: [name, plan], plan = the requests it has still to run
    req,        \* header of the request execute is running (NetlinkMessageHeader)
    resType,    \* execute's res_type argument
    res,        \* execute's local res: Vec<Vec<u8>>
    ret,        \* what the latest execute returned (NoRet while it runs)
    verbRet,    \* what the latest verb returned
    kst,        \* the kernel's reply stream for req: "open" | "acking" | "closed"
    nexec,      \* history: how many times execute was entered
    sent,       \* history: the seq of each request put on the wire, in order
    from,       \* the sender's nl_pid of the datagram received last
    last,       \* history: the latest examined message that carries (seq, pid) of req
    nmsg,       \* history: messages examined in this transaction
    matched,    \* history: payloads of the examined messages that carry (seq, pid) of req
    refRet,     \* a second execute fed only the messages that carry (seq, pid) of req:
    refRes,     \*   what it returned, and its res
    nreq,       \* Part 2: the NetlinkRequest being built (None before new)
    out,        \* Part 2: what serialize returned for nreq as it is now (None if not called)
    nadd,       \* Part 2, history: add_data and add_raw_data calls on nreq
    endian,     \* Part 2: the target's byte order, "little" or "big"
    attrs,      \* Part 3: the attributes a caller has built, in the order of the list
    wire,       \* Part 3: what serializing attrs as they are now returned (None if not called)
    nbuild,     \* Part 3, history: new, add_child and add_child_from_attr calls
    rbuf,       \* Part 3: the bytes handed to a decoder
    parsed,     \* Part 3: the decoder called last and what it returned (None if none was)
    rcall,      \* Part 4: the RtCmd and the Route of the latest route_handle call (None before)
    rtreq,      \* Part 4: what route::route_handle returned for rcall
    fcall,      \* Part 5: a function called on its own, [fn, ...] with its arguments (None before)
    fret,       \* Part 5: what that call returned (None until it has)
    nl,         \* Part 6: the Netlink value, [sockets: protocol -> handle] (None before new)
    fds,        \* Part 6: the file descriptors the process has open on sockets
    hs,         \* Part 7: two handles on sockets of their own, each in a transaction
    links,      \* Part 8: the kernel's links, ifindex -> [name, master]
    live        \* Part 9: an execute at its receive loop and its socket's queue

vars == <<seq, build, kmode, pc, verb, req, resType, res, ret, verbRet, kst,
          nexec, sent, from, last, nmsg, matched, refRet, refRes, nreq, out,
          nadd, endian, attrs, wire, nbuild, rbuf, parsed, rcall, rtreq, fcall,
          fret, nl, fds, hs, links, live>>

driverVars == <<seq, build, kmode, pc, verb, req, resType, res, ret, verbRet, kst,
                nexec, sent, from, last, nmsg, matched, refRet, refRes>>

builderVars == <<nreq, out, nadd, endian>>

codecVars == <<attrs, wire, nbuild, rbuf, parsed>>

routeVars == <<rcall, rtreq>>

callVars == <<fcall, fret>>

facadeVars == <<nl, fds>>

pairVars == <<hs>>

kernelVars == <<links>>

liveVars == <<live>>

---------------------------------------------------------------------------
(* Bounds of the model.                                                    *)

\* calls of execute on one handle in a behaviour
MaxSends == 2
\* messages the for-loop examines in one transaction
MaxMsgs == 3
\* calls of execute after which no further route verb is started
MaxRouteCalls == 1
\* attributes in the list a caller builds
MaxAttrs == 2
\* calls of new, add_child and add_child_from_attr on that list
MaxBuild == 5
\* calls of add_data and add_raw_data on one request
MaxAdds == 3
\* the largest header.nlmsg_len of a request that is built
MaxBytes == 65544
\* the longest byte vector given to vec_to_addr, and the largest of the small
\* lengths given to align_of
MaxVecLen == 17
\* the longest buffer given to NetlinkSocket::send
MaxSendLen == 16
\* messages in a datagram given to execute's for-loop
MaxDatagram == 2
\* payloads execute returns to a list verb
MaxReplies == 2
\* sockets the process may have open at once
MaxFds == 3
\* calls made on one Netlink value
MaxFacadeCalls == 3
\* requests each of two handles sends, and messages each reads for a request
MaxPairSends == 2
MaxPairMsgs == 2
\* links the kernel can hold, and calls of link verbs made on it
MaxLinks == 2
MaxLinkCalls == 3
\* messages the kernel puts in the queue of a socket during one execute
MaxLiveMsgs == 3
\* well-formed messages in a buffer given to NetlinkMessage::from
MaxFrames == 2

---------------------------------------------------------------------------
(* u32 arithmetic on limbs.                                                *)

LimbMod == 2 ^ 16

U32(n) == <<n \div LimbMod, n % LimbMod>>

U32Max == <<LimbMod - 1, LimbMod - 1>>

U32Lt(a, b) == a[1] < b[1] \/ (a[1] = b[1] /\ a[2] < b[2])

\* a + 1 on u32, wrapping at 2^32
U32WrappingInc(a) ==
    IF a[2] < LimbMod - 1 THEN <<a[1], a[2] + 1>>
    ELSE IF a[1] < LimbMod - 1 THEN <<a[1] + 1, 0>>
    ELSE <<0, 0>>

\* a - 1 on u32, wrapping at 0
U32WrappingDec(a) ==
    IF a[2] > 0 THEN <<a[1], a[2] - 1>>
    ELSE IF a[1] > 0 THEN <<a[1] - 1, LimbMod - 1>>
    ELSE U32Max

---------------------------------------------------------------------------
(* Bit operations on non-negative integers.                                *)

RECURSIVE BitAnd(_, _)
BitAnd(a, b) ==
    IF a = 0 \/ b = 0 THEN 0
    ELSE (a % 2) * (b % 2) + 2 * BitAnd(a \div 2, b \div 2)

RECURSIVE BitOr(_, _)
BitOr(a, b) ==
    IF a = 0 THEN b
    ELSE IF b = 0 THEN a
    ELSE (IF a % 2 = 1 \/ b % 2 = 1 THEN 1 ELSE 0) + 2 * BitOr(a \div 2, b \div 2)

---------------------------------------------------------------------------
(* Constants of the wire protocol.                                         *)

NLMSG_ERROR == 2
NLMSG_DONE == 3
NLMSG_HDRLEN == 16
PID_KERNEL == 0

NLM_F_REQUEST == 1
NLM_F_MULTI == 2
NLM_F_ACK == 4
NLM_F_REPLACE == 256
NLM_F_EXCL == 512
NLM_F_CREATE == 1024
NLM_F_APPEND == 2048
NLM_F_DUMP == 768

RTM_NEWLINK == 16
RTM_DELLINK == 17
RTM_GETLINK == 18
RTM_NEWADDR == 20
RTM_DELADDR == 21
RTM_GETADDR == 22
RTM_NEWROUTE == 24
RTM_DELROUTE == 25
RTM_GETROUTE == 26

\* the port id the kernel gave the socket at bind (bound with nl_pid = 0)
SockPid == 4097
\* the port id of some other netlink socket
OtherPid == SockPid + 1

---------------------------------------------------------------------------
(* Messages.                                                               *)

\* i32::from_ne_bytes on a little-endian host: b is 4 bytes
I32FromNeBytes(b) ==
    b[1] + 256 * b[2] + 65536 * b[3]
      + 16777216 * (IF b[4] >= 128 THEN b[4] - 256 ELSE b[4])

\* NetlinkMessageHeader::new: the length of a bare header, NLM_F_REQUEST or'ed
\* into the caller's flags and cut to u16, seq and pid zero
HeaderNew(proto, flags) ==
    [nlmsg_len |-> 16,
     nlmsg_type |-> proto,
     nlmsg_flags |-> BitOr(NLM_F_REQUEST, flags) % LimbMod,
     nlmsg_seq |-> U32(0),
     nlmsg_pid |-> 0]

\* a framed message as NetlinkMessage::from returns it
Msg(type, flags, s, pid, data) ==
    [header |-> [nlmsg_len |-> 16 + Len(data), nlmsg_type |-> type,
                 nlmsg_flags |-> flags, nlmsg_seq |-> s, nlmsg_pid |-> pid],
     data |-> data]

NoMsg == [none |-> TRUE]

\* payloads: errno 0, errno -19 (ENODEV) followed by nothing, and one that is
\* too short to hold an errno
Data0 == <<0, 0, 0, 0>>
DataE == <<237, 255, 255, 255>>
DataShort == <<0, 0>>

---------------------------------------------------------------------------
(* execute: results and the body of its for-loop.                          *)

NoRet == [st |-> "running"]
Ok(v) == [st |-> "ok", val |-> v]
Err(e) == [st |-> "err", err |-> e]
Panicked == [st |-> "panic"]

\* ExecMsg without the test of nlmsg_seq
ExecMsgNoSeqCheck(m, rq, pid, rt, r) ==
    IF m.header.nlmsg_pid # pid THEN [ctl |-> "continue", res |-> r]
    ELSE IF m.header.nlmsg_type \in {NLMSG_DONE, NLMSG_ERROR} THEN
        IF Len(m.data) < 4 THEN [ctl |-> "panic", res |-> r]
        ELSE LET err_no == I32FromNeBytes(SubSeq(m.data, 1, 4)) IN
             IF err_no = 0 THEN [ctl |-> "done", res |-> r]
             ELSE [ctl |-> "bail", res |-> r,
                   err |-> [kind |-> "netlink", errno |-> -err_no,
                            ctx |-> SubSeq(m.data, 5, Len(m.data))]]
    ELSE IF rt # 0 /\ m.header.nlmsg_type # rt THEN [ctl |-> "continue", res |-> r]
    ELSE LET r2 == Append(r, m.data) IN
         IF BitAnd(m.header.nlmsg_flags, NLM_F_MULTI) = 0
         THEN [ctl |-> "done", res |-> r2]
         ELSE [ctl |-> "continue", res |-> r2]

\* ExecMsg that appends a payload whatever res_type asks for
ExecMsgNoTypeFilter(m, rq, pid, rt, r) ==
    IF m.header.nlmsg_seq # rq.nlmsg_seq THEN [ctl |-> "continue", res |-> r]
    ELSE IF m.header.nlmsg_pid # pid THEN [ctl |-> "continue", res |-> r]
    ELSE IF m.header.nlmsg_type \in {NLMSG_DONE, NLMSG_ERROR} THEN
        IF Len(m.data) < 4 THEN [ctl |-> "panic", res |-> r]
        ELSE LET err_no == I32FromNeBytes(SubSeq(m.data, 1, 4)) IN
             IF err_no = 0 THEN [ctl |-> "done", res |-> r]
             ELSE [ctl |-> "bail", res |-> r,
                   err |-> [kind |-> "netlink", errno |-> -err_no,
                            ctx |-> SubSeq(m.data, 5, Len(m.data))]]
    ELSE LET r2 == Append(r, m.data) IN
         IF BitAnd(m.header.nlmsg_flags, NLM_F_MULTI) = 0
         THEN [ctl |-> "done", res |-> r2]
         ELSE [ctl |-> "continue", res |-> r2]

\* ExecMsg that goes on after every appended payload, NLM_F_MULTI or not
ExecMsgNoSingleBreak(m, rq, pid, rt, r) ==
    IF m.header.nlmsg_seq # rq.nlmsg_seq THEN [ctl |-> "continue", res |-> r]
    ELSE IF m.header.nlmsg_pid # pid THEN [ctl |-> "continue", res |-> r]
    ELSE IF m.header.nlmsg_type \in {NLMSG_DONE, NLMSG_ERROR} THEN
        IF Len(m.data) < 4 THEN [ctl |-> "panic", res |-> r]
        ELSE LET err_no == I32FromNeBytes(SubSeq(m.data, 1, 4)) IN
             IF err_no = 0 THEN [ctl |-> "done", res |-> r]
             ELSE [ctl |-> "bail", res |-> r,
                   err |-> [kind |-> "netlink", errno |-> -err_no,
                            ctx |-> SubSeq(m.data, 5, Len(m.data))]]
    ELSE IF rt # 0 /\ m.header.nlmsg_type # rt THEN [ctl |-> "continue", res |-> r]
    ELSE [ctl |-> "continue", res |-> Append(r, m.data)]

\* ExecMsg without the test of nlmsg_pid
ExecMsgNoPidCheck(m, rq, pid, rt, r) ==
    IF m.header.nlmsg_seq # rq.nlmsg_seq THEN [ctl |-> "continue", res |-> r]
    ELSE IF m.header.nlmsg_type \in {NLMSG_DONE, NLMSG_ERROR} THEN
        IF Len(m.data) < 4 THEN [ctl |-> "panic", res |-> r]
        ELSE LET err_no == I32FromNeBytes(SubSeq(m.data, 1, 4)) IN
             IF err_no = 0 THEN [ctl |-> "done", res |-> r]
             ELSE [ctl |-> "bail", res |-> r,
                   err |-> [kind |-> "netlink", errno |-> -err_no,
                            ctx |-> SubSeq(m.data, 5, Len(m.data))]]
    ELSE IF rt # 0 /\ m.header.nlmsg_type # rt THEN [ctl |-> "continue", res |-> r]
    ELSE LET r2 == Append(r, m.data) IN
         IF BitAnd(m.header.nlmsg_flags, NLM_F_MULTI) = 0
         THEN [ctl |-> "done", res |-> r2]
         ELSE [ctl |-> "continue", res |-> r2]

\* ExecMsg with the NLM_F_MULTI test applied to the messages it skips as well
ExecMsgStopOnSkipped(m, rq, pid, rt, r) ==
    LET single == BitAnd(m.header.nlmsg_flags, NLM_F_MULTI) = 0
        skip == [ctl |-> IF single THEN "done" ELSE "continue", res |-> r]
    IN
    IF m.header.nlmsg_seq # rq.nlmsg_seq THEN skip
    ELSE IF m.header.nlmsg_pid # pid THEN skip
    ELSE IF m.header.nlmsg_type \in {NLMSG_DONE, NLMSG_ERROR} THEN
        IF Len(m.data) < 4 THEN [ctl |-> "panic", res |-> r]
        ELSE LET err_no == I32FromNeBytes(SubSeq(m.data, 1, 4)) IN
             IF err_no = 0 THEN [ctl |-> "done", res |-> r]
             ELSE [ctl |-> "bail", res |-> r,
                   err |-> [kind |-> "netlink", errno |-> -err_no,
                            ctx |-> SubSeq(m.data, 5, Len(m.data))]]
    ELSE IF rt # 0 /\ m.header.nlmsg_type # rt THEN skip
    ELSE [ctl |-> IF single THEN "done" ELSE "continue", res |-> Append(r, m.data)]

\* ExecMsg with NLMSG_ERROR as the only terminator
ExecMsgDoneAsData(m, rq, pid, rt, r) ==
    IF m.header.nlmsg_seq # rq.nlmsg_seq THEN [ctl |-> "continue", res |-> r]
    ELSE IF m.header.nlmsg_pid # pid THEN [ctl |-> "continue", res |-> r]
    ELSE IF m.header.nlmsg_type = NLMSG_ERROR THEN
        IF Len(m.data) < 4 THEN [ctl |-> "panic", res |-> r]
        ELSE LET err_no == I32FromNeBytes(SubSeq(m.data, 1, 4)) IN
             IF err_no = 0 THEN [ctl |-> "done", res |-> r]
             ELSE [ctl |-> "bail", res |-> r,
                   err |-> [kind |-> "netlink", errno |-> -err_no,
                            ctx |-> SubSeq(m.data, 5, Len(m.data))]]
    ELSE IF rt # 0 /\ m.header.nlmsg_type # rt THEN [ctl |-> "continue", res |-> r]
    ELSE LET r2 == Append(r, m.data) IN
         IF BitAnd(m.header.nlmsg_flags, NLM_F_MULTI) = 0
         THEN [ctl |-> "done", res |-> r2]
         ELSE [ctl |-> "continue", res |-> r2]

\* ExecMsg that breaks after every appended payload, NLM_F_MULTI or not
ExecMsgNoMultiCheck(m, rq, pid, rt, r) ==
    IF m.header.nlmsg_seq # rq.nlmsg_seq THEN [ctl |-> "continue", res |-> r]
    ELSE IF m.header.nlmsg_pid # pid THEN [ctl |-> "continue", res |-> r]
    ELSE IF m.header.nlmsg_type \in {NLMSG_DONE, NLMSG_ERROR} THEN
        IF Len(m.data) < 4 THEN [ctl |-> "panic", res |-> r]
        ELSE LET err_no == I32FromNeBytes(SubSeq(m.data, 1, 4)) IN
             IF err_no = 0 THEN [ctl |-> "done", res |-> r]
             ELSE [ctl |-> "bail", res |-> r,
                   err |-> [kind |-> "netlink", errno |-> -err_no,
                            ctx |-> SubSeq(m.data, 5, Len(m.data))]]
    ELSE IF rt # 0 /\ m.header.nlmsg_type # rt THEN [ctl |-> "continue", res |-> r]
    ELSE [ctl |-> "done", res |-> Append(r, m.data)]

\* lines 160-189 of handle.rs for one message m: what the loop does next
\* ("continue": go on with the next message, "done": break 'done, "bail":
\* return the error, "panic": the slice m.data[0..4] is out of range), and res
ExecMsg(m, rq, pid, rt, r) ==
    IF m.header.nlmsg_seq # rq.nlmsg_seq THEN [ctl |-> "continue", res |-> r]
    ELSE IF m.header.nlmsg_pid # pid THEN [ctl |-> "continue", res |-> r]
    ELSE IF m.header.nlmsg_type \in {NLMSG_DONE, NLMSG_ERROR} THEN
        IF Len(m.data) < 4 THEN [ctl |-> "panic", res |-> r]
        ELSE LET err_no == I32FromNeBytes(SubSeq(m.data, 1, 4)) IN
             IF err_no = 0 THEN [ctl |-> "done", res |-> r]
             ELSE [ctl |-> "bail", res |-> r,
                   err |-> [kind |-> "netlink", errno |-> -err_no,
                            ctx |-> SubSeq(m.data, 5, Len(m.data))]]
    ELSE IF rt # 0 /\ m.header.nlmsg_type # rt THEN [ctl |-> "continue", res |-> r]
    ELSE LET r2 == Append(r, m.data) IN
         IF BitAnd(m.header.nlmsg_flags, NLM_F_MULTI) = 0
         THEN [ctl |-> "done", res |-> r2]
         ELSE [ctl |-> "continue", res |-> r2]

\* what execute returns once the loop has decided: Ok(res) after break 'done,
\* the error alone after bail
ExecReturn(step) ==
    CASE step.ctl = "done" -> Ok(step.res)
      [] step.ctl = "bail" -> Err(step.err)
      [] step.ctl = "panic" -> Panicked
      [] OTHER -> NoRet

---------------------------------------------------------------------------
(* The verbs of SocketHandle: each is a list of requests run in order.     *)

\* one call of execute: the request-building function, the header it gives
\* NetlinkRequest::new, execute's res_type, and whether the caller wants
\* exactly one reply (link_get)
Op(fn, proto, flags, rt, one) ==
    [fn |-> fn, header |-> HeaderNew(proto, flags), resType |-> rt, one |-> one]

LinkNewOp(flags) == Op("link_new", RTM_NEWLINK, flags, 0, FALSE)
LinkSetMasterOp == Op("link_set_master", RTM_NEWLINK, NLM_F_ACK, 0, FALSE)
LinkDelOp == Op("link_del", RTM_DELLINK, NLM_F_ACK, 0, FALSE)
LinkGetOp == Op("link_get", RTM_GETLINK, NLM_F_ACK, 0, TRUE)
LinkSetupOp == Op("link_setup", RTM_NEWLINK, NLM_F_ACK, 0, FALSE)

\* addr::addr_handle: (proto, flags) of each AddrCmd
AddrOp(cmd) ==
    CASE cmd = "Add" ->
           Op("addr_handle", RTM_NEWADDR,
              BitOr(NLM_F_CREATE, BitOr(NLM_F_EXCL, NLM_F_ACK)), 0, FALSE)
      [] cmd = "Replace" ->
           Op("addr_handle", RTM_NEWADDR,
              BitOr(NLM_F_CREATE, BitOr(NLM_F_REPLACE, NLM_F_ACK)), 0, FALSE)
      [] cmd = "Del" -> Op("addr_handle", RTM_DELADDR, NLM_F_ACK, 0, FALSE)

\* addr::addr_list, run by SocketHandle::addr_list with res_type RTM_NEWADDR
AddrListOp == Op("addr_list", RTM_GETADDR, NLM_F_DUMP, RTM_NEWADDR, FALSE)

\* a route_handle whose Add asks for NLM_F_REPLACE, as Replace does
RouteOpAddReplaces(cmd) ==
    CASE cmd \in {"Add", "Replace"} ->
           Op("route_handle", RTM_NEWROUTE,
              BitOr(NLM_F_CREATE, BitOr(NLM_F_REPLACE, NLM_F_ACK)), 0, FALSE)
      [] cmd = "Append" ->
           Op("route_handle", RTM_NEWROUTE,
              BitOr(NLM_F_CREATE, BitOr(NLM_F_APPEND, NLM_F_ACK)), 0, FALSE)
      [] cmd = "Del" -> Op("route_handle", RTM_DELROUTE, NLM_F_ACK, 0, FALSE)
      [] cmd = "Show" -> Op("route_handle", RTM_GETROUTE, NLM_F_DUMP, 0, FALSE)

\* route::route_handle: (proto, flags) of each RtCmd
RouteOp(cmd) ==
    CASE cmd = "Add" ->
           Op("route_handle", RTM_NEWROUTE,
              BitOr(NLM_F_CREATE, BitOr(NLM_F_EXCL, NLM_F_ACK)), 0, FALSE)
      [] cmd = "Append" ->
           Op("route_handle", RTM_NEWROUTE,
              BitOr(NLM_F_CREATE, BitOr(NLM_F_APPEND, NLM_F_ACK)), 0, FALSE)
      [] cmd = "Replace" ->
           Op("route_handle", RTM_NEWROUTE,
              BitOr(NLM_F_CREATE, BitOr(NLM_F_REPLACE, NLM_F_ACK)), 0, FALSE)
      [] cmd = "Del" -> Op("route_handle", RTM_DELROUTE, NLM_F_ACK, 0, FALSE)
      [] cmd = "Show" -> Op("route_handle", RTM_GETROUTE, NLM_F_DUMP, 0, FALSE)

\* route::route_get, run by SocketHandle::route_get with res_type RTM_NEWROUTE
RouteGetOp == Op("route_get", RTM_GETROUTE, NLM_F_REQUEST, RTM_NEWROUTE, FALSE)

\* an ensure_index that never looks the link up
EnsureIndexNever(index) == <<>>

\* ensure_index: a link_get by name when attrs.index is 0, nothing otherwise
EnsureIndex(index) == IF index = 0 THEN <<LinkGetOp>> ELSE <<>>

\* the interface indexes the callers pass: 0 (unknown) or a known one
Indexes == {0, 1}

AddFlags == BitOr(NLM_F_CREATE, BitOr(NLM_F_EXCL, NLM_F_ACK))

Call(name, plan) == [name |-> name, plan |-> plan]

\* a verb that is given LinkAttrs: attrs.index as the caller set it, and the
\* verb's local index, which ensure_index returns
CallOn(name, i, plan) ==
    [name |-> name, plan |-> plan, attrs |-> [index |-> i], index |-> i]

\* attrs().index of the link that link_get returns for a payload
LinkIndex(data) == data[1]

\* a link_new that sets the master whatever master_index is
LinkNewPlanAlwaysMaster(index, master_index) ==
    <<LinkNewOp(AddFlags)>> \o EnsureIndex(index) \o <<LinkSetMasterOp>>

\* link_new, lines 28-35: the create, and when attrs.master_index is not 0
\* ensure_index and link_set_master
LinkNewPlan(index, master_index) ==
    <<LinkNewOp(AddFlags)>> \o
      (IF master_index # 0 THEN EnsureIndex(index) \o <<LinkSetMasterOp>>
       ELSE <<>>)

\* every verb, with the arguments that change the requests it runs. The
\* commands Replace and Append differ from Add in the NLM_F_CREATE family of
\* flags only, which execute never reads: Add stands for them. A route Del
\* is a transaction of the shape of an address Del, and is called in
\* SpecRoute.
Calls ==
    {[CallOn("link_new", i, LinkNewPlan(i, m))
        EXCEPT !.attrs = [index |-> i, master_index |-> m]] :
        i \in Indexes, m \in Indexes}
    \cup {CallOn("link_del", i, EnsureIndex(i) \o <<LinkDelOp>>) : i \in Indexes}
    \cup {Call("link_get", <<LinkGetOp>>)}
    \cup {CallOn("link_setup", i, EnsureIndex(i) \o <<LinkSetupOp>>) : i \in Indexes}
    \cup {CallOn("addr_handle", i, EnsureIndex(i) \o <<AddrOp(c)>>) :
            i \in Indexes, c \in {"Add", "Del"}}
    \cup {Call("addr_list", <<AddrListOp>>)}
    \cup {Call("route_handle", <<RouteOp(c)>>) : c \in {"Add", "Show"}}
    \cup {Call("route_get", <<RouteGetOp>>)}
    \cup {Call("route_list", <<RouteOp("Show")>>)}

NoCall == Call("none", <<>>)

---------------------------------------------------------------------------
(* The other side of the socket.                                           *)
(*                                                                         *)
(* recv() hands the loop a whole datagram, and the loop reads its messages *)
(* in order without looking ahead; the model draws each message when the   *)
(* loop reaches it. The socket's receive queue is not stored: what the     *)
(* loop may read next is any message the peer can have queued, replies to  *)
(* earlier requests that were left unread included.                        *)

MsgTypes == {NLMSG_ERROR, NLMSG_DONE, RTM_NEWLINK, RTM_NEWADDR, RTM_NEWROUTE}
MsgFlags == {0, NLM_F_MULTI}
MsgDatas == {Data0, DataE, DataShort}
\* the payloads that hold an errno
DoneDatas == {Data0, DataE}

IsGet(rq) == rq.nlmsg_type \in {RTM_GETLINK, RTM_GETADDR, RTM_GETROUTE}
IsDump(rq) == IsGet(rq) /\ BitAnd(rq.nlmsg_flags, NLM_F_DUMP) = NLM_F_DUMP
WantsAck(rq) == BitAnd(rq.nlmsg_flags, NLM_F_ACK) # 0

\* RTM_GETx is answered with RTM_NEWx
ReplyType(rq) == rq.nlmsg_type - 2

\* the message carries the request's seq and the socket's pid
Matches(m, rq, pid) ==
    m.header.nlmsg_seq = rq.nlmsg_seq /\ m.header.nlmsg_pid = pid

\* every message that carries the request's seq and the socket's pid
Replies(rq) ==
    {Msg(t, f, rq.nlmsg_seq, SockPid, d) :
        t \in MsgTypes, f \in MsgFlags, d \in MsgDatas}

\* the messages that are not replies to rq: replies to the request before it
\* (a late reply), and messages with its seq for another socket
Strays(rq) ==
    {Msg(t, f, sp[1], sp[2], d) :
        t \in MsgTypes, f \in MsgFlags, d \in DoneDatas,
        sp \in {<<U32WrappingDec(rq.nlmsg_seq), SockPid>>,
                 <<rq.nlmsg_seq, OtherPid>>}}

\* rtnetlink(7): what the kernel sends next in answer to rq, with the state of
\* the reply stream after it. A dump is a run of NLM_F_MULTI parts closed by
\* NLMSG_DONE, or an NLMSG_ERROR; any other request is answered by an
\* NLMSG_ERROR (errno 0: the ack, when NLM_F_ACK asked for one) and, for a
\* GET, by one reply without NLM_F_MULTI, followed by the ack if asked for.
KernelReplies(rq, k) ==
    LET M(t, f, d) == Msg(t, f, rq.nlmsg_seq, SockPid, d) IN
    CASE k = "open" /\ IsDump(rq) ->
           {<<M(ReplyType(rq), NLM_F_MULTI, d), "open">> : d \in MsgDatas}
           \cup {<<M(NLMSG_DONE, NLM_F_MULTI, d), "closed">> : d \in DoneDatas}
           \cup {<<M(NLMSG_ERROR, 0, DataE), "closed">>}
      [] k = "open" /\ ~IsDump(rq) ->
           {<<M(NLMSG_ERROR, 0, DataE), "closed">>}
           \cup (IF WantsAck(rq) /\ ~IsGet(rq)
                 THEN {<<M(NLMSG_ERROR, 0, Data0), "closed">>} ELSE {})
           \cup (IF IsGet(rq)
                 THEN {<<M(ReplyType(rq), 0, d),
                         IF WantsAck(rq) THEN "acking" ELSE "closed">> :
                           d \in MsgDatas}
                 ELSE {})
      [] k = "acking" -> {<<M(NLMSG_ERROR, 0, Data0), "closed">>}
      [] OTHER -> {}

\* what the loop may read next, with the kernel's reply stream after it
NextMsgs(rq, k, mode) ==
    {<<m, k>> : m \in Strays(rq)}
      \cup (IF mode = "any" THEN {<<m, k>> : m \in Replies(rq)}
            ELSE KernelReplies(rq, k))

---------------------------------------------------------------------------
(* Part 1: the actions of the handle's thread.                             *)

\* a caller starts a verb
VerbStart ==
    /\ pc = "idle"
    /\ nexec < MaxSends
    /\ \E c \in Calls : verb' = c
    /\ pc' = "call"
    /\ verbRet' = NoRet
    /\ UNCHANGED <<seq, build, kmode, req, resType, res, ret, kst, nexec, sent,
                   from, last, nmsg, matched, refRet, refRes>>
    /\ UNCHANGED <<builderVars, codecVars, routeVars, callVars,
                   facadeVars, pairVars, kernelVars, liveVars>>

\* execute, lines 136-146: take the next seq, serialize, send, ask for the pid.
\* The u32 += overflows at 2^32 - 1: a debug build panics, a release build
\* wraps. send and pid are system calls and may fail.
ExecuteSend ==
    /\ pc = "call"
    /\ nexec < MaxSends
    /\ nexec' = nexec + 1
    /\ LET op == Head(verb.plan)
           overflow == seq = U32Max
       IN IF overflow /\ build = "debug"
          THEN /\ ret' = Panicked
               /\ pc' = "panic"
               /\ UNCHANGED <<seq, req, resType, res, kst, sent, from, last,
                              nmsg, matched, refRet, refRes>>
          ELSE /\ seq' = U32WrappingInc(seq)
               /\ req' = [op.header EXCEPT !.nlmsg_seq = seq']
               /\ resType' = op.resType
               /\ res' = <<>>
               /\ from' = PID_KERNEL
               /\ last' = NoMsg
               /\ nmsg' = 0
               /\ matched' = <<>>
               /\ refRes' = <<>>
               /\ \E sys \in {"ok", "send fails", "pid fails"} :
                    /\ sent' = IF sys = "send fails" THEN sent
                               ELSE Append(sent, req'.nlmsg_seq)
                    /\ kst' = IF sys = "send fails" THEN "closed" ELSE "open"
                    /\ ret' = IF sys = "ok" THEN NoRet ELSE Err([kind |-> "os"])
                    /\ refRet' = ret'
                    /\ pc' = IF sys = "ok" THEN "recv" ELSE "ret"
    /\ UNCHANGED <<build, kmode, verb, verbRet>>
    /\ UNCHANGED <<builderVars, codecVars, routeVars, callVars,
                   facadeVars, pairVars, kernelVars, liveVars>>

\* execute, line 151: the check of the datagram's sender
SenderIsKernel(f) == f = PID_KERNEL

\* NetlinkMessage::from, line 20: buf[NLMSG_HDRLEN..nlmsg_len] of a buffer
\* that holds n bytes panics when the range is reversed or ends past n
FramePanics(nlmsg_len, n) == NLMSG_HDRLEN > nlmsg_len \/ nlmsg_len > n

\* the datagrams a peer sends are DatagramLen bytes long; the nlmsg_len of
\* their first message is the right one, one below a header, or one past the
\* end
DatagramLen == NLMSG_HDRLEN + 4
FirstLens == {DatagramLen, 4, DatagramLen + 4}

\* the peers that put a datagram with that nlmsg_len on the socket: the kernel
\* that keeps to rtnetlink(7) frames its messages, any other peer need not
Senders(nlmsg_len, mode) ==
    IF mode = "rtnetlink" /\ nlmsg_len # DatagramLen THEN {OtherPid}
    ELSE {PID_KERNEL, OtherPid}

\* execute, lines 149-157, with NetlinkSocket::recv: recvfrom fails, or it
\* delivers a datagram and its sender; recv frames the datagram, which can
\* panic; execute then ends the transaction if the sender is not the kernel
ExecuteRecv ==
    /\ pc = "recv"
    /\ \/ /\ ret' = Err([kind |-> "os"])
          /\ pc' = "ret"
          /\ from' = from
       \/ \E len \in FirstLens : \E f \in Senders(len, kmode) :
            /\ from' = f
            /\ ret' = IF FramePanics(len, DatagramLen) THEN Panicked
                      ELSE IF SenderIsKernel(f) THEN NoRet
                      ELSE Err([kind |-> "wrong sender pid", from |-> f])
            /\ pc' = IF FramePanics(len, DatagramLen) THEN "panic"
                     ELSE IF SenderIsKernel(f) THEN "for" ELSE "ret"
    /\ refRet' = ret'
    /\ UNCHANGED <<seq, build, kmode, verb, req, resType, res, verbRet, kst,
                   nexec, sent, last, nmsg, matched, refRes>>
    /\ UNCHANGED <<builderVars, codecVars, routeVars, callVars,
                   facadeVars, pairVars, kernelVars, liveVars>>

\* execute, lines 159-190: the for-loop takes the next message of the datagram
ExecuteMsg ==
    /\ pc = "for"
    /\ nmsg < MaxMsgs
    /\ \E mk \in NextMsgs(req, kst, kmode) :
         LET m == mk[1]
             step == ExecMsg(m, req, SockPid, resType, res)
             hit == Matches(m, req, SockPid)
             ref == IF hit /\ refRet = NoRet
                    THEN ExecMsg(m, req, SockPid, resType, refRes)
                    ELSE [ctl |-> "continue", res |-> refRes]
         IN /\ res' = step.res
            /\ ret' = ExecReturn(step)
            /\ pc' = CASE step.ctl = "continue" -> "for"
                       [] step.ctl = "panic" -> "panic"
                       [] OTHER -> "ret"
            /\ last' = IF hit THEN m ELSE last
            /\ kst' = mk[2]
            /\ nmsg' = nmsg + 1
            /\ matched' = IF hit THEN Append(matched, m.data) ELSE matched
            /\ refRes' = ref.res
            /\ refRet' = IF refRet = NoRet THEN ExecReturn(ref) ELSE refRet
    /\ UNCHANGED <<seq, build, kmode, verb, req, resType, verbRet, nexec, sent,
                   from>>
    /\ UNCHANGED <<builderVars, codecVars, routeVars, callVars,
                   facadeVars, pairVars, kernelVars, liveVars>>

\* execute, line 190 back to 149: the datagram has no more messages, and the
\* outer loop calls recv again
ExecuteDatagramEnd ==
    /\ pc = "for"
    /\ pc' = "recv"
    /\ UNCHANGED <<seq, build, kmode, verb, req, resType, res, ret, verbRet,
                   kst, nexec, sent, from, last, nmsg, matched, refRet, refRes>>
    /\ UNCHANGED <<builderVars, codecVars, routeVars, callVars,
                   facadeVars, pairVars, kernelVars, liveVars>>

\* link_get that takes whatever execute collected
LinkGetResultAny(msgs) == Ok(msgs)

\* link_get, lines 51-55: the match on msgs.len()
LinkGetResult(msgs) ==
    CASE Len(msgs) = 0 -> Err([kind |-> "no link found"])
      [] Len(msgs) = 1 -> Ok(msgs)
      [] OTHER -> Err([kind |-> "multiple links found"])

\* a verb that runs the request again when execute returned an error
VerbNextRetries ==
    /\ pc = "ret"
    /\ LET rest == Tail(verb.plan)
       IN IF ret.st # "ok"
          THEN /\ verb' = verb
               /\ verbRet' = NoRet
               /\ pc' = "call"
          ELSE /\ verb' = [verb EXCEPT !.plan = rest]
               /\ verbRet' = IF rest = <<>> THEN Ok(ret.val) ELSE NoRet
               /\ pc' = IF rest = <<>> THEN "idle" ELSE "call"
    /\ res' = <<>>
    /\ matched' = <<>>
    /\ refRes' = <<>>
    /\ nmsg' = 0
    /\ UNCHANGED <<seq, build, kmode, req, resType, ret, kst, nexec, sent, from,
                   last, refRet>>
    /\ UNCHANGED <<builderVars, codecVars, routeVars, callVars,
                   facadeVars, pairVars, kernelVars, liveVars>>

\* execute has returned, its locals are dropped, and the verb takes the
\* result: an error (the ? operator) or a wrong number of links ends the verb;
\* a link_get that ensure_index ran gives the verb its index; otherwise the
\* verb goes on to its next request, or returns
VerbNext ==
    /\ pc = "ret"
    /\ LET op == Head(verb.plan)
           rest == Tail(verb.plan)
       IN CASE ret.st # "ok" ->
                 /\ verbRet' = ret
                 /\ pc' = "idle"
                 /\ verb' = verb
            [] ret.st = "ok" /\ op.one /\ LinkGetResult(ret.val).st # "ok" ->
                 /\ verbRet' = LinkGetResult(ret.val)
                 /\ pc' = "idle"
                 /\ verb' = verb
            [] ret.st = "ok" /\ op.one /\ LinkGetResult(ret.val).st = "ok"
                 /\ rest # <<>> ->
                 /\ verb' = [verb EXCEPT !.plan = rest,
                                         !.index = LinkIndex(ret.val[1])]
                 /\ verbRet' = NoRet
                 /\ pc' = "call"
            [] OTHER ->
                 /\ verb' = [verb EXCEPT !.plan = rest]
                 /\ verbRet' = IF rest = <<>> THEN Ok(ret.val) ELSE NoRet
                 /\ pc' = IF rest = <<>> THEN "idle" ELSE "call"
    /\ res' = <<>>
    /\ matched' = <<>>
    /\ refRes' = <<>>
    /\ nmsg' = 0
    /\ UNCHANGED <<seq, build, kmode, req, resType, ret, kst, nexec, sent, from,
                   last, refRet>>
    /\ UNCHANGED <<builderVars, codecVars, routeVars, callVars,
                   facadeVars, pairVars, kernelVars, liveVars>>

\* the handle's thread: one step of a verb or of execute
Next ==
    \/ VerbStart
    \/ ExecuteSend
    \/ ExecuteRecv
    \/ ExecuteMsg
    \/ ExecuteDatagramEnd
    \/ VerbNext

DriverInit(s, b, k) ==
    /\ seq = s
    /\ build = b
    /\ kmode = k
    /\ pc = "idle"
    /\ verb = NoCall
    /\ req = HeaderNew(0, 0)
    /\ resType = 0
    /\ res = <<>>
    /\ ret = NoRet
    /\ verbRet = NoRet
    /\ kst = "closed"
    /\ nexec = 0
    /\ sent = <<>>
    /\ from = PID_KERNEL
    /\ last = NoMsg
    /\ nmsg = 0
    /\ matched = <<>>
    /\ refRet = NoRet
    /\ refRes = <<>>

\* no request is being built
BuilderIdle ==
    /\ nreq = [none |-> TRUE]
    /\ out = [none |-> TRUE]
    /\ nadd = 0
    /\ endian = "little"

\* no attribute built, nothing serialized, nothing decoded
CodecIdle ==
    /\ attrs = <<>>
    /\ wire = [none |-> TRUE]
    /\ nbuild = 0
    /\ rbuf = <<>>
    /\ parsed = [none |-> TRUE]

\* no route verb called
RouteIdle ==
    /\ rcall = [none |-> TRUE]
    /\ rtreq = [none |-> TRUE]

\* no function called on its own
CallIdle ==
    /\ fcall = [none |-> TRUE]
    /\ fret = [none |-> TRUE]

\* no facade, no socket open, no pair of handles, no link in the kernel, no
\* execute watched at its receive loop
WorldIdle ==
    /\ nl = [none |-> TRUE]
    /\ fds = {}
    /\ hs = [none |-> TRUE]
    /\ links = <<>>
    /\ live = [none |-> TRUE]

\* SocketHandle::new: seq 0; the peer may send anything
Init ==
    /\ DriverInit(U32(0), "release", "any")
    /\ BuilderIdle /\ CodecIdle /\ RouteIdle /\ CallIdle /\ WorldIdle

Spec == Init /\ [][Next]_vars

\* the same handle facing a kernel that keeps to rtnetlink(7); other sockets
\* may still send it anything
InitRt ==
    /\ DriverInit(U32(0), "release", "rtnetlink")
    /\ BuilderIdle /\ CodecIdle /\ RouteIdle /\ CallIdle /\ WorldIdle

SpecRt == InitRt /\ [][Next]_vars

\* a handle that has already run 2^32 - 2 transactions (seq is the only thing
\* a handle keeps from one transaction to the next), in either build
InitLate ==
    /\ \E b \in {"debug", "release"} :
         DriverInit(U32WrappingDec(U32Max), b, "rtnetlink")
    /\ BuilderIdle /\ CodecIdle /\ RouteIdle /\ CallIdle /\ WorldIdle

SpecLate == InitLate /\ [][Next]_vars

---------------------------------------------------------------------------
(* Part 1: the claims.                                                     *)

RECURSIVE IsSubseq(_, _)
\* a is b with some elements left out
IsSubseq(a, b) ==
    IF a = <<>> THEN TRUE
    ELSE IF b = <<>> THEN FALSE
    ELSE IF Head(a) = Head(b) THEN IsSubseq(Tail(a), Tail(b))
    ELSE IsSubseq(a, Tail(b))

HasMulti(m) == BitAnd(m.header.nlmsg_flags, NLM_F_MULTI) # 0
IsTerminator(m) == m.header.nlmsg_type \in {NLMSG_DONE, NLMSG_ERROR}
HasErrno(m) == Len(m.data) >= 4
ErrnoOf(m) == I32FromNeBytes(SubSeq(m.data, 1, 4))

\* C1: in every transaction, whatever earlier transactions left behind, the
\* payloads execute holds and returns are payloads of received messages that
\* carry the request's seq and the socket's pid, in arrival order, and they
\* and the outcome are the same as if the messages failing either test had
\* never been received.
C1_OnlyMatchingMessagesCount ==
    /\ IsSubseq(res, matched)
    /\ (pc = "ret" /\ ret.st = "ok") => ret.val = res
    /\ res = refRes
    /\ ret = refRet

\* a later transaction returned two payloads and skipped an unrelated message
C1_Witness ==
    /\ nexec >= 2
    /\ pc = "ret"
    /\ ret.st = "ok"
    /\ Len(ret.val) = 2
    /\ nmsg > Len(matched)

\* C2: no request goes on the wire with seq 0, and each request's seq is
\* greater than the seq of every request the handle sent before it.
C2_SeqNeverZeroAndIncreasing ==
    \A i \in DOMAIN sent :
        /\ sent[i] # U32(0)
        /\ \A j \in 1..(i - 1) : U32Lt(sent[j], sent[i])

\* C3: a message with the request's (seq, pid) of type NLMSG_DONE or
\* NLMSG_ERROR ends the transaction: when its first 4 payload bytes read as 0
\* execute returns the payloads collected so far, when they read as another
\* number it returns the error and no payloads.
C3_TerminatorEndsTransaction ==
    (last # NoMsg /\ IsTerminator(last)) =>
        /\ ret # NoRet
        /\ (HasErrno(last) /\ ErrnoOf(last) = 0) =>
              ret.st = "ok" /\ (pc = "ret" => ret.val = res)
        /\ (HasErrno(last) /\ ErrnoOf(last) # 0) =>
              ret = Err([kind |-> "netlink", errno |-> -ErrnoOf(last),
                         ctx |-> SubSeq(last.data, 5, Len(last.data))])

\* an NLMSG_ERROR with a non-zero errno arrived after a payload was collected
C3_Witness ==
    /\ last # NoMsg
    /\ last.header.nlmsg_type = NLMSG_ERROR
    /\ HasErrno(last) /\ ErrnoOf(last) # 0
    /\ Len(res) >= 1
    /\ ret.st = "err"

\* C4: a received datagram whose sender is not pid 0 ends the transaction with
\* the error "wrong sender pid": the for-loop is not entered for it, and
\* nothing collected before is returned.
C4_WrongSenderAborts ==
    from # PID_KERNEL =>
        /\ pc \notin {"for", "recv"}
        /\ ret = Err([kind |-> "wrong sender pid", from |-> from])

\* the message ends a transaction that returns Ok: a terminator with errno 0,
\* or an appended message without NLM_F_MULTI
EndsTransaction(m, rq, rt) ==
    /\ m # NoMsg
    /\ Matches(m, rq, SockPid)
    /\ \/ IsTerminator(m) /\ HasErrno(m) /\ ErrnoOf(m) = 0
       \/ /\ ~IsTerminator(m)
          /\ rt = 0 \/ m.header.nlmsg_type = rt
          /\ ~HasMulti(m)

\* C5: execute is entered for the next request only when the transaction of
\* the request before it has ended, by a terminator, by an appended message
\* without NLM_F_MULTI, or by an error.
C5_RequestsTotallyOrdered ==
    [][nexec' > nexec =>
          \/ nexec = 0
          \/ ret.st = "err"
          \/ ret.st = "ok" /\ EndsTransaction(last, req, resType)]_vars

\* link_new with a master: its second request is on the wire
C5_Witness ==
    /\ verb.name = "link_new"
    /\ Len(sent) = 2
    /\ pc = "recv"
    /\ Len(verb.plan) = 1

\* an ack: NLMSG_ERROR with errno 0
IsAck(m) == m.header.nlmsg_type = NLMSG_ERROR /\ HasErrno(m) /\ ErrnoOf(m) = 0

\* C6: when a transaction whose request is not a dump returns Ok, the last
\* message of it that execute processed is an ack or has no NLM_F_MULTI.
C6_NonDumpEndsOnAckOrSingle ==
    (nexec > 0 /\ ret.st = "ok" /\ ~IsDump(req)) =>
        /\ last # NoMsg
        /\ IsAck(last) \/ ~HasMulti(last)

\* a second, non-dump transaction ended on the ack
C6_Witness ==
    /\ nexec >= 2
    /\ ret.st = "ok"
    /\ ~IsDump(req)
    /\ last # NoMsg
    /\ IsAck(last)
    /\ nmsg >= 2

\* C7: when a transaction whose request is a dump returns Ok, the last
\* message of it that execute processed is an NLMSG_DONE.
C7_DumpEndsOnDone ==
    (nexec > 0 /\ ret.st = "ok" /\ IsDump(req)) =>
        /\ last # NoMsg
        /\ last.header.nlmsg_type = NLMSG_DONE

\* addr_list returned two payloads of its dump
C7_Witness ==
    /\ ret.st = "ok"
    /\ IsDump(req)
    /\ verb.name = "addr_list"
    /\ Len(ret.val) = 2

---------------------------------------------------------------------------
(* Part 2: the request builder and the payloads.                           *)

RT_ATTR_SIZE == 4
RTA_ALIGNTO == 4
IF_INFO_MSG_SIZE == 16
IF_ADDR_MSG_SIZE == 8
ROUTE_MSG_SIZE == 12

\* Option<T>
None == [none |-> TRUE]
Some(v) == [some |-> v]

\* utils::align_of: (len + align_to - 1) & !(align_to - 1); clearing the bits
\* of align_to - 1 is subtracting the ones that are set
AlignOfNone(len, align_to) == len

AlignOf(len, align_to) ==
    LET x == len + align_to - 1 IN x - BitAnd(x, align_to - 1)

\* bincode's fixed-width little-endian integers
LeBytes16(n) == <<n % 256, (n \div 256) % 256>>
LeBytes32(n) ==
    <<n % 256, (n \div 256) % 256, (n \div 65536) % 256, (n \div 16777216) % 256>>

\* u16::to_ne_bytes on a target of byte order e, and its inverse
U16ToNeBytes(n, e) ==
    IF e = "little" THEN LeBytes16(n) ELSE <<(n \div 256) % 256, n % 256>>
U16FromNeBytes(b, e) ==
    IF e = "little" THEN b[1] + 256 * b[2] ELSE 256 * b[1] + b[2]

\* bincode::serialize(&header): the five fields, little-endian, no padding
HeaderBytes(h) ==
    LeBytes32(h.nlmsg_len) \o LeBytes16(h.nlmsg_type) \o LeBytes16(h.nlmsg_flags)
      \o LeBytes16(h.nlmsg_seq[2]) \o LeBytes16(h.nlmsg_seq[1])
      \o LeBytes32(h.nlmsg_pid)

\* the three fixed-size messages, with the fields the code sets
InfoMessage(family, ifi_type, index, flags) ==
    [kind |-> "InfoMessage", family |-> family, ifi_type |-> ifi_type,
     index |-> index, flags |-> flags, change |-> 0]
AddressMessage(family, prefix_len, index) ==
    [kind |-> "AddressMessage", family |-> family, prefix_len |-> prefix_len,
     flags |-> 0, scope |-> 0, index |-> index]
RouteMessage(family, table, protocol, scope, rtm_type) ==
    [kind |-> "RouteMessage", family |-> family, dst_len |-> 0, src_len |-> 0,
     tos |-> 0, table |-> table, protocol |-> protocol, scope |-> scope,
     rtm_type |-> rtm_type, flags |-> 0]

\* bincode::serialize of each: the fields in order, little-endian, no padding
InfoMessageBytes(d) ==
    <<d.family, 0>> \o LeBytes16(d.ifi_type) \o LeBytes32(d.index)
      \o LeBytes32(d.flags) \o LeBytes32(d.change)
AddressMessageBytes(d) ==
    <<d.family, d.prefix_len, d.flags, d.scope>> \o LeBytes32(d.index)
RouteMessageBytes(d) ==
    <<d.family, d.dst_len, d.src_len, d.tos, d.table, d.protocol, d.scope,
      d.rtm_type>> \o LeBytes32(d.flags)

\* NetlinkRouteAttr::new: rta_len is header plus value, cut to u16
NetlinkRouteAttrNew(rta_type, value) ==
    [kind |-> "NetlinkRouteAttr",
     rt_attr |-> [rta_len |-> (RT_ATTR_SIZE + Len(value)) % LimbMod,
                  rta_type |-> rta_type],
     value |-> value,
     children |-> None]

\* len() that counts the padding
AttrLenPadded(a) == AlignOf(a.rt_attr.rta_len, RTA_ALIGNTO)

\* NetlinkRouteAttr::len
AttrLen(a) == a.rt_attr.rta_len

\* NetlinkRequestData::len of a payload
DataLen(d) ==
    CASE d.kind = "NetlinkRouteAttr" -> AttrLen(d)
      [] d.kind = "InfoMessage" -> IF_INFO_MSG_SIZE
      [] d.kind = "AddressMessage" -> IF_ADDR_MSG_SIZE
      [] d.kind = "RouteMessage" -> ROUTE_MSG_SIZE

\* NetlinkRouteAttr::add_child_from_attr: rta_len grows by the child's len()
\* (u16 +=; the attributes of the model stay far below 2^16), and the child is
\* pushed
AddChildFromAttr(a, child) ==
    [a EXCEPT !.rt_attr.rta_len = (@ + DataLen(child)) % LimbMod,
              !.children = IF a.children = None THEN Some(<<child>>)
                           ELSE Some(Append(a.children.some, child))]

\* NetlinkRouteAttr::add_child
AddChild(a, rta_type, value) ==
    AddChildFromAttr(a, NetlinkRouteAttrNew(rta_type, value))

RECURSIVE DataSerialize(_, _), SerializeAll(_, _)
\* serialize that leaves the length field of an attribute as rta_len holds it
DataSerializeKeepLen(d, e) ==
    CASE d.kind = "InfoMessage" -> InfoMessageBytes(d)
      [] d.kind = "AddressMessage" -> AddressMessageBytes(d)
      [] d.kind = "RouteMessage" -> RouteMessageBytes(d)
      [] d.kind = "NetlinkRouteAttr" ->
           LET b0 == U16ToNeBytes(d.rt_attr.rta_len, e)
                       \o U16ToNeBytes(d.rt_attr.rta_type, e) \o d.value
               b1 == b0 \o [i \in 1..(AlignOf(Len(b0), RTA_ALIGNTO) - Len(b0)) |-> 0]
           IN IF d.children = None THEN b1
              ELSE b1 \o SerializeAll(d.children.some, e)

\* NetlinkRequestData::serialize of a payload on a target of byte order e. An
\* attribute: rta_len, rta_type, the value, zeros up to a multiple of
\* RTA_ALIGNTO, the children, and then the first two bytes overwritten with
\* the length of all of it, cut to u16
DataSerialize(d, e) ==
    CASE d.kind = "InfoMessage" -> InfoMessageBytes(d)
      [] d.kind = "AddressMessage" -> AddressMessageBytes(d)
      [] d.kind = "RouteMessage" -> RouteMessageBytes(d)
      [] d.kind = "NetlinkRouteAttr" ->
           LET b0 == U16ToNeBytes(d.rt_attr.rta_len, e)
                       \o U16ToNeBytes(d.rt_attr.rta_type, e) \o d.value
               align_to == AlignOf(Len(b0), RTA_ALIGNTO)
               b1 == IF Len(b0) < align_to
                     THEN b0 \o [i \in 1..(align_to - Len(b0)) |-> 0]
                     ELSE b0
               b2 == IF d.children = None THEN b1
                     ELSE b1 \o SerializeAll(d.children.some, e)
           IN U16ToNeBytes(Len(b2) % LimbMod, e) \o SubSeq(b2, 3, Len(b2))

\* the loop "for d in data { buf.extend(d.serialize()?) }"
SerializeAll(ds, e) ==
    IF ds = <<>> THEN <<>>
    ELSE DataSerialize(Head(ds), e) \o SerializeAll(Tail(ds), e)

\* NetlinkRequest::new
RequestNew(proto, flags) ==
    [header |-> HeaderNew(proto, flags), data |-> None, raw_data |-> None]

\* NetlinkRequest::add_data: nlmsg_len grows by the payload's len() (u32 +=; the
\* requests of the model stay below MaxBytes)
RequestAddData(r, d) ==
    [r EXCEPT !.header.nlmsg_len = @ + DataLen(d),
              !.data = IF r.data = None THEN Some(<<d>>)
                       ELSE Some(Append(r.data.some, d))]

\* add_raw_data that leaves nlmsg_len alone
RequestAddRawDataNoLen(r, t) ==
    [r EXCEPT !.raw_data = IF r.raw_data = None THEN Some(t)
                           ELSE Some(r.raw_data.some \o t)]

\* NetlinkRequest::add_raw_data
RequestAddRawData(r, t) ==
    [r EXCEPT !.header.nlmsg_len = @ + Len(t),
              !.raw_data = IF r.raw_data = None THEN Some(t)
                           ELSE Some(r.raw_data.some \o t)]

\* NetlinkRequest::serialize on a target of byte order e: the header, the
\* payloads, the raw tail, and then the first two bytes overwritten with the
\* length of the buffer cut to u16. The request is left as it was.
RequestSerialize(r, e) ==
    LET buf == HeaderBytes(r.header)
                 \o (IF r.data = None THEN <<>> ELSE SerializeAll(r.data.some, e))
                 \o (IF r.raw_data = None THEN <<>> ELSE r.raw_data.some)
        len == Len(buf) % LimbMod
    IN U16ToNeBytes(len, e) \o SubSeq(buf, 3, Len(buf))

\* the payloads callers add: the InfoMessage of test_netlink_request, an
\* AddressMessage and a RouteMessage as addr_handle and route_handle fill
\* them, attributes whose values are 2, 3 and 4 bytes long, and a nested one
\* whose child has a 5-byte value
Payloads ==
    { InfoMessage(0, 772, 1, 73),
      AddressMessage(2, 24, 1),
      RouteMessage(2, 254, 3, 0, 1),
      NetlinkRouteAttrNew(3, <<108, 111>>),
      NetlinkRouteAttrNew(3, <<108, 111, 0>>),
      NetlinkRouteAttrNew(4, <<220, 5, 0, 0>>),
      AddChild(NetlinkRouteAttrNew(18, <<>>), 1, <<118, 101, 116, 104, 0>>) }

\* a raw tail of n bytes
RawTail(n) == [i \in 1..n |-> i % 256]

\* the raw tails callers add: 2 bytes, 5 bytes, and the one that makes a bare
\* request 2^16 bytes long
RawTails == { RawTail(2), RawTail(5), RawTail(LimbMod - 16) }

\* let req = NetlinkRequest::new(proto, flags)
New ==
    /\ \E hd \in { <<0, 0>>, <<RTM_NEWLINK, AddFlags>> } :
         nreq' = RequestNew(hd[1], hd[2])
    /\ out' = None
    /\ nadd' = 0
    /\ UNCHANGED endian
    /\ UNCHANGED <<driverVars, codecVars, routeVars, callVars,
                   facadeVars, pairVars, kernelVars, liveVars>>

\* req.add_data(Box::new(d))
AddData ==
    /\ nreq # None
    /\ nadd < MaxAdds
    /\ \E d \in Payloads :
         /\ nreq.header.nlmsg_len + DataLen(d) <= MaxBytes
         /\ nreq' = RequestAddData(nreq, d)
    /\ out' = None
    /\ nadd' = nadd + 1
    /\ UNCHANGED endian
    /\ UNCHANGED <<driverVars, codecVars, routeVars, callVars,
                   facadeVars, pairVars, kernelVars, liveVars>>

\* req.add_raw_data(t)
AddRawData ==
    /\ nreq # None
    /\ nadd < MaxAdds
    /\ \E t \in RawTails :
         /\ nreq.header.nlmsg_len + Len(t) <= MaxBytes
         /\ nreq' = RequestAddRawData(nreq, t)
    /\ out' = None
    /\ nadd' = nadd + 1
    /\ UNCHANGED endian
    /\ UNCHANGED <<driverVars, codecVars, routeVars, callVars,
                   facadeVars, pairVars, kernelVars, liveVars>>

\* let buf = req.serialize()?
Serialize ==
    /\ nreq # None
    /\ out' = Ok(RequestSerialize(nreq, endian))
    /\ nreq' = nreq
    /\ UNCHANGED <<nadd, endian>>
    /\ UNCHANGED <<driverVars, codecVars, routeVars, callVars,
                   facadeVars, pairVars, kernelVars, liveVars>>

\* a caller building requests, on a target of either byte order
InitReq ==
    /\ DriverInit(U32(0), "release", "any")
    /\ nreq = None
    /\ out = None
    /\ nadd = 0
    /\ endian \in {"little", "big"}
    /\ CodecIdle /\ RouteIdle /\ CallIdle /\ WorldIdle

NextReq ==
    \/ New
    \/ AddData
    \/ AddRawData
    \/ Serialize

SpecReq == InitReq /\ [][NextReq]_vars

---------------------------------------------------------------------------
(* Part 2: the claims.                                                     *)

\* the payloads and the raw tail of a request
DataOf(r) == IF r.data = None THEN <<>> ELSE r.data.some
RawOf(r) == IF r.raw_data = None THEN <<>> ELSE r.raw_data.some

IsAttr(d) == d.kind = "NetlinkRouteAttr"

RECURSIVE PadBytes(_), PadBytesAll(_)
\* the zero bytes that follow the values of an attribute and of its children
\* so that each ends on a multiple of 4
PadBytes(d) ==
    IF ~IsAttr(d) THEN 0
    ELSE LET n == RT_ATTR_SIZE + Len(d.value)
         IN (AlignOf(n, RTA_ALIGNTO) - n)
              + (IF d.children = None THEN 0 ELSE PadBytesAll(d.children.some))
PadBytesAll(ds) ==
    IF ds = <<>> THEN 0 ELSE PadBytes(Head(ds)) + PadBytesAll(Tail(ds))

RECURSIVE SumLen(_)
\* the sum of len() over payloads
SumLen(ds) == IF ds = <<>> THEN 0 ELSE DataLen(Head(ds)) + SumLen(Tail(ds))

\* C8: the first two bytes of the buffer serialize returns, read as a
\* native-endian u16, are the number of bytes of the buffer.
C8_LenFieldIsByteCount ==
    out # None => U16FromNeBytes(SubSeq(out.val, 1, 2), endian) = Len(out.val)

\* C9 as the specification words it: after every mutation header.nlmsg_len is
\* the size serialize would produce.
C9_LenIsSerializedSize ==
    nreq # None =>
        nreq.header.nlmsg_len = Len(RequestSerialize(nreq, endian))

\* C9: after every mutation header.nlmsg_len is the size serialize would
\* produce less the padding bytes of the attributes, so it is that size
\* exactly when no attribute is padded.
C9_LenIsSizeLessPadding ==
    nreq # None =>
        LET size == Len(RequestSerialize(nreq, endian))
            pad == PadBytesAll(DataOf(nreq))
        IN /\ nreq.header.nlmsg_len + pad = size
           /\ nreq.header.nlmsg_len = size <=> pad = 0

\* three mutations, a raw tail and padded attributes among them
C9_Witness ==
    /\ nreq # None
    /\ nadd = 3
    /\ Len(RawOf(nreq)) = 5
    /\ PadBytesAll(DataOf(nreq)) = 5
    /\ nreq.header.nlmsg_len < Len(RequestSerialize(nreq, endian))

\* a payload list as in test_netlink_request: an InfoMessage and an attribute
\* with a 2-byte value
IsInfoAndName(ds) ==
    /\ Len(ds) = 2
    /\ ds[1].kind = "InfoMessage"
    /\ IsAttr(ds[2]) /\ ds[2].children = None /\ Len(ds[2].value) = 2

\* the size of a payload's serialization: an attribute is its 4-byte header
\* and its value padded to a multiple of 4, and then its children
RECURSIVE PaddedSize(_), SumPadded(_)
PaddedSize(d) ==
    CASE d.kind = "InfoMessage" -> 16
      [] d.kind = "AddressMessage" -> 8
      [] d.kind = "RouteMessage" -> 12
      [] IsAttr(d) ->
           4 * ((4 + Len(d.value) + 3) \div 4)
             + (IF d.children = None THEN 0 ELSE SumPadded(d.children.some))
SumPadded(ds) ==
    IF ds = <<>> THEN 0 ELSE PaddedSize(Head(ds)) + SumPadded(Tail(ds))

C10_Sums ==
    (nreq # None /\ nreq.raw_data = None) =>
        LET ds == DataOf(nreq) IN
        /\ nreq.header.nlmsg_len = 16 + SumLen(ds)
        /\ \A i \in DOMAIN ds :
             (IsAttr(ds[i]) /\ ds[i].children = None) =>
                 DataLen(ds[i]) = 4 + Len(ds[i].value)
        /\ out # None => Len(out.val) = 16 + SumPadded(ds)
        /\ IsInfoAndName(ds) =>
             /\ nreq.header.nlmsg_len = 38
             /\ out # None => Len(out.val) = 40

\* C10: after add_data calls only, header.nlmsg_len is 16 plus the sum of the
\* payloads' len() (4 + value length for an attribute without children),
\* serialize returns 16 plus the sum of the payloads' padded sizes, an
\* InfoMessage and an attribute with a 2-byte value give 38 and 40, and a call
\* of serialize leaves header.nlmsg_len as it was.
C10_LenUnpaddedSizePadded ==
    /\ []C10_Sums
    /\ [][(out' # None /\ nreq # None) =>
             nreq'.header.nlmsg_len = nreq.header.nlmsg_len]_vars

\* test_netlink_request: serialize has returned 40 bytes, nlmsg_len is 38
C10_Witness ==
    /\ nreq # None
    /\ nreq.raw_data = None
    /\ IsInfoAndName(DataOf(nreq))
    /\ out # None
    /\ Len(out.val) = 40
    /\ nreq.header.nlmsg_len = 38

---------------------------------------------------------------------------
(* Part 3: attribute trees, their serialization and the decoders.          *)

\* the (rta_type, value) pairs callers pass to new and add_child: an empty
\* value (IFLA_LINKINFO before its children), "lo" zero-terminated, a u32,
\* and "veth" zero-terminated
AttrInputs ==
    { <<18, <<>>>>,
      <<3, <<108, 111, 0>>>>,
      <<4, <<220, 5, 0, 0>>>>,
      <<1, <<118, 101, 116, 104, 0>>>> }

\* let attr = NetlinkRouteAttr::new(rta_type, value), put at the end of the list
AttrNew ==
    /\ Len(attrs) < MaxAttrs
    /\ nbuild < MaxBuild
    /\ \E in \in AttrInputs :
         attrs' = Append(attrs, NetlinkRouteAttrNew(in[1], in[2]))
    /\ wire' = None
    /\ nbuild' = nbuild + 1
    /\ UNCHANGED <<rbuf, parsed>>
    /\ UNCHANGED <<driverVars, builderVars, routeVars, callVars,
                   facadeVars, pairVars, kernelVars, liveVars>>

\* attr.add_child(rta_type, value) on the attribute built last
AttrAddChild ==
    /\ attrs # <<>>
    /\ nbuild < MaxBuild
    /\ \E in \in AttrInputs :
         attrs' = [attrs EXCEPT ![Len(attrs)] = AddChild(@, in[1], in[2])]
    /\ wire' = None
    /\ nbuild' = nbuild + 1
    /\ UNCHANGED <<rbuf, parsed>>
    /\ UNCHANGED <<driverVars, builderVars, routeVars, callVars,
                   facadeVars, pairVars, kernelVars, liveVars>>

\* attr.add_child_from_attr(Box::new(child)): the attribute built last becomes
\* a child of the one built before it, or a zeroed InfoMessage becomes a child
\* of the attribute built last
AttrAddChildFromAttr ==
    /\ nbuild < MaxBuild
    /\ \/ /\ Len(attrs) >= 2
          /\ LET n == Len(attrs) IN
             attrs' = Append(SubSeq(attrs, 1, n - 2),
                             AddChildFromAttr(attrs[n - 1], attrs[n]))
       \/ /\ attrs # <<>>
          /\ attrs' = [attrs EXCEPT ![Len(attrs)] =
                          AddChildFromAttr(@, InfoMessage(0, 0, 0, 0))]
    /\ wire' = None
    /\ nbuild' = nbuild + 1
    /\ UNCHANGED <<rbuf, parsed>>
    /\ UNCHANGED <<driverVars, builderVars, routeVars, callVars,
                   facadeVars, pairVars, kernelVars, liveVars>>

\* the attributes of the list serialized one after the other, as
\* NetlinkRequest::serialize and NetlinkRouteAttr::serialize do with theirs
AttrSerialize ==
    /\ attrs # <<>>
    /\ wire' = Ok(SerializeAll(attrs, endian))
    /\ attrs' = attrs
    /\ UNCHANGED <<nbuild, rbuf, parsed>>
    /\ UNCHANGED <<driverVars, builderVars, routeVars, callVars,
                   facadeVars, pairVars, kernelVars, liveVars>>

\* a caller building attribute lists, on a target of either byte order
InitAttr ==
    /\ DriverInit(U32(0), "release", "any")
    /\ nreq = None
    /\ out = None
    /\ nadd = 0
    /\ endian \in {"little", "big"}
    /\ CodecIdle /\ RouteIdle /\ CallIdle /\ WorldIdle

NextAttr ==
    \/ AttrNew
    \/ AttrAddChild
    \/ AttrAddChildFromAttr
    \/ AttrSerialize

SpecAttr == InitAttr /\ [][NextAttr]_vars

---------------------------------------------------------------------------
(* Part 3: the decoders.                                                   *)

RECURSIVE FromLoop(_, _, _)
\* the while-loop of NetlinkRouteAttr::from with attrs = acc: it ends when
\* fewer than RT_ATTR_SIZE bytes are left; it reads rta_len and rta_type in
\* native order; buf[RT_ATTR_SIZE..rta_len] panics when the range is reversed
\* or ends past the buffer, and buf[len..] panics when the aligned length is
\* past the buffer
FromLoop(buf, acc, e) ==
    IF Len(buf) < RT_ATTR_SIZE THEN Ok(acc)
    ELSE LET rta_len == U16FromNeBytes(SubSeq(buf, 1, 2), e)
             rta_type == U16FromNeBytes(SubSeq(buf, 3, 4), e)
             len == AlignOf(rta_len, RTA_ALIGNTO)
         IN IF RT_ATTR_SIZE > rta_len \/ rta_len > Len(buf) THEN Panicked
            ELSE IF len > Len(buf) THEN Panicked
            ELSE FromLoop(SubSeq(buf, len + 1, Len(buf)),
                          Append(acc,
                                 [kind |-> "NetlinkRouteAttr",
                                  rt_attr |-> [rta_len |-> rta_len,
                                               rta_type |-> rta_type],
                                  value |-> SubSeq(buf, RT_ATTR_SIZE + 1, rta_len),
                                  children |-> None]),
                          e)

\* NetlinkRouteAttr::from
NetlinkRouteAttrFrom(buf, e) == FromLoop(buf, <<>>, e)

RECURSIVE MapLoop(_, _, _)
\* the while-loop of NetlinkRouteAttr::map with attrs = acc, a HashMap from
\* rta_type to value: insert replaces the value a type had
MapLoop(buf, acc, e) ==
    IF Len(buf) < RT_ATTR_SIZE THEN Ok(acc)
    ELSE LET rta_len == U16FromNeBytes(SubSeq(buf, 1, 2), e)
             rta_type == U16FromNeBytes(SubSeq(buf, 3, 4), e)
             len == AlignOf(rta_len, RTA_ALIGNTO)
         IN IF RT_ATTR_SIZE > rta_len \/ rta_len > Len(buf) THEN Panicked
            ELSE IF len > Len(buf) THEN Panicked
            ELSE MapLoop(SubSeq(buf, len + 1, Len(buf)),
                         [t \in DOMAIN acc \cup {rta_type} |->
                             IF t = rta_type
                             THEN SubSeq(buf, RT_ATTR_SIZE + 1, rta_len)
                             ELSE acc[t]],
                         e)

\* NetlinkRouteAttr::map
NetlinkRouteAttrMap(buf, e) == MapLoop(buf, <<>>, e)

\* every prefix of b
Prefixes(b) == { SubSeq(b, 1, n) : n \in 0..Len(b) }

\* the rta_len a peer declares for an attribute that holds 8 bytes
DeclaredLens == {0, 3, 4, 7, 8, 9, 12, LimbMod - 1}

\* the attribute bytes handed to the decoders on a target of byte order e:
\* what serialize makes of a name and an MTU, and of a kind, cut at every
\* length, and one attribute of 8 bytes under every declared length
AttrBufs(e) ==
    Prefixes(SerializeAll(<<NetlinkRouteAttrNew(3, <<108, 111, 0>>),
                            NetlinkRouteAttrNew(4, <<220, 5, 0, 0>>)>>, e))
      \cup Prefixes(SerializeAll(<<NetlinkRouteAttrNew(3, <<108, 111, 0>>),
                                   NetlinkRouteAttrNew(3, <<101, 116, 104, 48, 0>>)>>, e))
      \cup { U16ToNeBytes(n, e) \o U16ToNeBytes(3, e) \o <<108, 111, 0, 0>> :
               n \in DeclaredLens }

\* let rt_attrs = NetlinkRouteAttr::from(buf)
AttrFrom ==
    /\ parsed' = [fn |-> "from", ret |-> NetlinkRouteAttrFrom(rbuf, endian)]
    /\ UNCHANGED <<attrs, wire, nbuild, rbuf>>
    /\ UNCHANGED <<driverVars, builderVars, routeVars, callVars,
                   facadeVars, pairVars, kernelVars, liveVars>>

\* let rt_attrs = NetlinkRouteAttr::map(buf)
AttrMap ==
    /\ parsed' = [fn |-> "map", ret |-> NetlinkRouteAttrMap(rbuf, endian)]
    /\ UNCHANGED <<attrs, wire, nbuild, rbuf>>
    /\ UNCHANGED <<driverVars, builderVars, routeVars, callVars,
                   facadeVars, pairVars, kernelVars, liveVars>>

\* a caller decoding attribute bytes, on a target of either byte order
InitDecode ==
    /\ DriverInit(U32(0), "release", "any")
    /\ nreq = None
    /\ out = None
    /\ nadd = 0
    /\ endian \in {"little", "big"}
    /\ attrs = <<>>
    /\ wire = None
    /\ nbuild = 0
    /\ rbuf \in AttrBufs(endian)
    /\ parsed = None
    /\ RouteIdle /\ CallIdle /\ WorldIdle

NextDecode ==
    \/ AttrFrom
    \/ AttrMap

SpecDecode == InitDecode /\ [][NextDecode]_vars

---------------------------------------------------------------------------
(* Part 3: framing a received datagram.                                    *)

NLMSG_ALIGNTO == 4
RECV_BUF_SIZE == 65536

\* u32::to_ne_bytes on a target of byte order e, and its inverse, on limbs
U32ToNeBytes(l, e) ==
    IF e = "little" THEN U16ToNeBytes(l[2], e) \o U16ToNeBytes(l[1], e)
    ELSE U16ToNeBytes(l[1], e) \o U16ToNeBytes(l[2], e)
U32FromNeBytes(b, e) ==
    IF e = "little"
    THEN <<U16FromNeBytes(SubSeq(b, 3, 4), e), U16FromNeBytes(SubSeq(b, 1, 2), e)>>
    ELSE <<U16FromNeBytes(SubSeq(b, 1, 2), e), U16FromNeBytes(SubSeq(b, 3, 4), e)>>

\* *(buf.as_ptr() as *const NetlinkMessageHeader): the five fields in native
\* order; nlmsg_len and nlmsg_pid as limbs
HeaderFromNeBytes(b, e) ==
    [nlmsg_len |-> U32FromNeBytes(SubSeq(b, 1, 4), e),
     nlmsg_type |-> U16FromNeBytes(SubSeq(b, 5, 6), e),
     nlmsg_flags |-> U16FromNeBytes(SubSeq(b, 7, 8), e),
     nlmsg_seq |-> U32FromNeBytes(SubSeq(b, 9, 12), e),
     nlmsg_pid |-> U32FromNeBytes(SubSeq(b, 13, 16), e)]

\* a u32 taken as usize is more than n, for n up to 2^16
UsizeGt(l, n) == l[1] >= 2 \/ l[1] * LimbMod + l[2] > n

RECURSIVE MessageLoopNoAlign(_, _, _)
\* a loop that goes on at nlmsg_len, not at its multiple of NLMSG_ALIGNTO
MessageLoopNoAlign(buf, acc, e) ==
    IF Len(buf) < NLMSG_HDRLEN THEN Ok(acc)
    ELSE LET header == HeaderFromNeBytes(SubSeq(buf, 1, NLMSG_HDRLEN), e)
         IN IF UsizeGt(header.nlmsg_len, Len(buf)) THEN Panicked
            ELSE LET nlmsg_len == header.nlmsg_len[1] * LimbMod + header.nlmsg_len[2]
                 IN IF NLMSG_HDRLEN > nlmsg_len THEN Panicked
                    ELSE MessageLoopNoAlign(SubSeq(buf, nlmsg_len + 1, Len(buf)),
                                            Append(acc,
                                                   [header |-> header,
                                                    data |-> SubSeq(buf, NLMSG_HDRLEN + 1,
                                                                    nlmsg_len)]),
                                            e)

RECURSIVE MessageLoop(_, _, _)
\* the while-loop of NetlinkMessage::from with msgs = acc: it ends when fewer
\* than NLMSG_HDRLEN bytes are left; buf[NLMSG_HDRLEN..nlmsg_len] panics when
\* the range is reversed or ends past the buffer, and buf[len..] panics when
\* the aligned length is past the buffer
MessageLoop(buf, acc, e) ==
    IF Len(buf) < NLMSG_HDRLEN THEN Ok(acc)
    ELSE LET header == HeaderFromNeBytes(SubSeq(buf, 1, NLMSG_HDRLEN), e)
         IN IF UsizeGt(header.nlmsg_len, Len(buf)) THEN Panicked
            ELSE LET nlmsg_len == header.nlmsg_len[1] * LimbMod + header.nlmsg_len[2]
                     len == AlignOf(nlmsg_len, NLMSG_ALIGNTO)
                 IN IF NLMSG_HDRLEN > nlmsg_len THEN Panicked
                    ELSE IF len > Len(buf) THEN Panicked
                    ELSE MessageLoop(SubSeq(buf, len + 1, Len(buf)),
                                     Append(acc,
                                            [header |-> header,
                                             data |-> SubSeq(buf, NLMSG_HDRLEN + 1,
                                                             nlmsg_len)]),
                                     e)

\* NetlinkMessage::from
NetlinkMessageFrom(buf, e) == MessageLoop(buf, <<>>, e)

\* a message as a peer on a target of byte order e puts it on the socket: the
\* header with the nlmsg_len it declares, then the body
FrameBytes(nlmsg_len, type, flags, body, e) ==
    U32ToNeBytes(nlmsg_len, e) \o U16ToNeBytes(type, e) \o U16ToNeBytes(flags, e)
      \o U32ToNeBytes(U32(1), e) \o U32ToNeBytes(U32(SockPid), e) \o body

\* the nlmsg_len a peer declares for a message that holds 20 bytes
DeclaredFrameLens ==
    { U32(0), U32(15), U32(16), U32(17), U32(20), U32(21), U32(24), U32Max }

\* the bytes handed to NetlinkMessage::from: an ack and a DONE in one
\* datagram, cut at every length; one message of 20 bytes under every
\* declared length; and one message of 18 bytes that declares 18
FrameBufs(e) ==
    Prefixes(FrameBytes(U32(20), NLMSG_ERROR, 0, Data0, e)
               \o FrameBytes(U32(20), NLMSG_DONE, NLM_F_MULTI, Data0, e))
      \cup { FrameBytes(n, RTM_NEWLINK, 0, Data0, e) : n \in DeclaredFrameLens }
      \cup { FrameBytes(U32(18), RTM_NEWLINK, 0, DataShort, e) }

\* the datagrams a peer sends: an ack, an ack and a DONE, and one message of
\* RECV_BUF_SIZE + 4 bytes
Datagrams(e) ==
    { FrameBytes(U32(20), NLMSG_ERROR, 0, Data0, e),
      FrameBytes(U32(20), NLMSG_ERROR, 0, Data0, e)
        \o FrameBytes(U32(20), NLMSG_DONE, NLM_F_MULTI, Data0, e),
      FrameBytes(U32(RECV_BUF_SIZE + 4), RTM_NEWLINK, 0,
                 [i \in 1..(RECV_BUF_SIZE + 4 - NLMSG_HDRLEN) |-> 0], e) }

\* let msgs = NetlinkMessage::from(buf)
MessageFrom ==
    /\ parsed' = [fn |-> "message_from", ret |-> NetlinkMessageFrom(rbuf, endian)]
    /\ UNCHANGED <<attrs, wire, nbuild, rbuf>>
    /\ UNCHANGED <<driverVars, builderVars, routeVars, callVars,
                   facadeVars, pairVars, kernelVars, liveVars>>

\* NetlinkSocket::recv: recvfrom fails, or it copies what fits of a datagram
\* into the RECV_BUF_SIZE bytes of buf and returns that count (got), and
\* NetlinkMessage::from frames buf[..got]
SocketRecv ==
    /\ \/ /\ parsed' = [fn |-> "recv", ret |-> Err("os")]
          /\ UNCHANGED rbuf
       \/ \E dg \in Datagrams(endian) : \E f \in {PID_KERNEL, OtherPid} :
            LET got == IF Len(dg) < RECV_BUF_SIZE THEN Len(dg) ELSE RECV_BUF_SIZE
                netlink_msgs == NetlinkMessageFrom(SubSeq(dg, 1, got), endian)
            IN /\ rbuf' = SubSeq(dg, 1, got)
               /\ parsed' = [fn |-> "recv",
                             ret |-> IF netlink_msgs.st = "ok"
                                     THEN Ok([msgs |-> netlink_msgs.val, from |-> f])
                                     ELSE netlink_msgs]
    /\ UNCHANGED <<attrs, wire, nbuild>>
    /\ UNCHANGED <<driverVars, builderVars, routeVars, callVars,
                   facadeVars, pairVars, kernelVars, liveVars>>

\* a socket receiving datagrams, on a target of either byte order
InitFrame ==
    /\ DriverInit(U32(0), "release", "any")
    /\ nreq = None
    /\ out = None
    /\ nadd = 0
    /\ endian \in {"little", "big"}
    /\ attrs = <<>>
    /\ wire = None
    /\ nbuild = 0
    /\ rbuf \in FrameBufs(endian)
    /\ parsed = None
    /\ RouteIdle /\ CallIdle /\ WorldIdle

NextFrame ==
    \/ MessageFrom
    \/ SocketRecv

SpecFrame == InitFrame /\ [][NextFrame]_vars

---------------------------------------------------------------------------
(* Part 4: route requests, route::route_handle (src/src/route.rs) and the  *)
(* verb SocketHandle::route_handle that runs them.                         *)

AF_INET == 2
AF_INET6 == 10
RT_TABLE_MAIN == 254
RTPROT_BOOT == 3
RT_SCOPE_UNIVERSE == 0
RT_SCOPE_NOWHERE == 255
RTN_UNICAST == 1
RTA_DST == 1
RTA_OIF == 4
RTA_GATEWAY == 5
RTA_PREFSRC == 7

\* i32::to_ne_bytes of an index that is not negative
I32ToNeBytes(n, e) ==
    IF e = "little" THEN LeBytes32(n)
    ELSE <<(n \div 16777216) % 256, (n \div 65536) % 256, (n \div 256) % 256, n % 256>>

\* RouteMessage::new_rt_msg, new_rt_del_msg and new_rt_list_msg: the fields
\* they name, the rest Default (0)
NewRtMsg == RouteMessage(0, RT_TABLE_MAIN, RTPROT_BOOT, RT_SCOPE_UNIVERSE, RTN_UNICAST)
NewRtDelMsg == RouteMessage(0, RT_TABLE_MAIN, 0, RT_SCOPE_NOWHERE, 0)
NewRtListMsg(family) == RouteMessage(family, 0, 0, 0, 0)

\* an IpAddr or IpNet: its family, its octets, and the prefix length of a net
IpV4(prefix_len) ==
    [family |-> AF_INET, octets |-> <<10, 0, 0, 1>>, prefix_len |-> prefix_len]
IpV6(prefix_len) ==
    [family |-> AF_INET6,
     octets |-> <<253, 0, 0, 0, 0, 0, 0, 0, 0, 0, 0, 0, 0, 0, 0, 1>>,
     prefix_len |-> prefix_len]

RtCmds == {"Add", "Append", "Replace", "Del", "Show"}

\* the Routes callers pass: family left at 0 or set to AF_INET6; each of dst,
\* src, gw absent, IPv4 or IPv6; scope left at 0 or set to RT_SCOPE_LINK (253);
\* oif_index 0 or 1
Routes ==
    [oif_index : {0, 1},
     family : {0, AF_INET6},
     dst : {None, Some(IpV4(24)), Some(IpV6(64))},
     src : {None, Some(IpV4(32)), Some(IpV6(128))},
     gw : {None, Some(IpV4(32)), Some(IpV6(128))},
     scope : {0, 253},
     flags : {0}]

\* the calls of route_handle: every command with every Route, but for the
\* fields a command does not look at: family and a zero oif_index change the
\* request of Show only, and Show is called with scope left at 0
RouteCalls ==
    { c \in RtCmds \X Routes :
        IF c[1] = "Show" THEN c[2].scope = 0
        ELSE c[2].family = 0 /\ c[2].oif_index = 1 }

\* route_handle that takes src and gw as they come, no test of the family
RouteHandleNoFamilyTest(cmd, route, e) ==
    LET hd == RouteOp(cmd).header
        msg0 == CASE hd.nlmsg_type = RTM_DELROUTE -> NewRtDelMsg
                  [] cmd = "Show" -> NewRtListMsg(route.family)
                  [] OTHER -> NewRtMsg
        oif == IF hd.nlmsg_type # RTM_GETROUTE \/ route.oif_index > 0
               THEN <<NetlinkRouteAttrNew(RTA_OIF, I32ToNeBytes(route.oif_index, e))>>
               ELSE <<>>
        fam == IF route.dst # None THEN route.dst.some.family
               ELSE IF msg0.family # 0 THEN msg0.family
               ELSE IF route.src # None THEN route.src.some.family
               ELSE IF route.gw # None THEN route.gw.some.family
               ELSE 0
        msg == [msg0 EXCEPT !.family = fam,
                            !.dst_len = IF route.dst # None
                                        THEN route.dst.some.prefix_len ELSE 0,
                            !.flags = route.flags,
                            !.scope = route.scope]
        as == oif
                \o (IF route.dst # None
                    THEN <<NetlinkRouteAttrNew(RTA_DST, route.dst.some.octets)>> ELSE <<>>)
                \o (IF route.src # None
                    THEN <<NetlinkRouteAttrNew(RTA_PREFSRC, route.src.some.octets)>> ELSE <<>>)
                \o (IF route.gw # None
                    THEN <<NetlinkRouteAttrNew(RTA_GATEWAY, route.gw.some.octets)>> ELSE <<>>)
        AddAll[i \in 0..Len(as)] ==
            IF i = 0 THEN RequestAddData(RequestNew(hd.nlmsg_type, hd.nlmsg_flags), msg)
            ELSE RequestAddData(AddAll[i - 1], as[i])
    IN Ok(AddAll[Len(as)])

\* a route_handle that adds the RouteMessage to the request as it was
\* created, a copy that the later assignments of family and dst_len miss
RouteHandleMsgFirst(cmd, route, e) ==
    LET hd == RouteOp(cmd).header
        req0 == RequestNew(hd.nlmsg_type, hd.nlmsg_flags)
        msg0 == CASE hd.nlmsg_type = RTM_DELROUTE -> NewRtDelMsg
                  [] cmd = "Show" -> NewRtListMsg(route.family)
                  [] OTHER -> NewRtMsg
        attrs0 == IF hd.nlmsg_type # RTM_GETROUTE \/ route.oif_index > 0
                  THEN <<NetlinkRouteAttrNew(RTA_OIF, I32ToNeBytes(route.oif_index, e))>>
                  ELSE <<>>
        msg1 == IF route.dst = None THEN msg0
                ELSE [msg0 EXCEPT !.family = route.dst.some.family,
                                  !.dst_len = route.dst.some.prefix_len]
        attrs1 == IF route.dst = None THEN attrs0
                  ELSE Append(attrs0, NetlinkRouteAttrNew(RTA_DST, route.dst.some.octets))
        srcBails == route.src # None /\ msg1.family # 0
                      /\ msg1.family # route.src.some.family
        msg2 == IF route.src # None /\ msg1.family = 0
                THEN [msg1 EXCEPT !.family = route.src.some.family] ELSE msg1
        attrs2 == IF route.src = None THEN attrs1
                  ELSE Append(attrs1,
                              NetlinkRouteAttrNew(RTA_PREFSRC, route.src.some.octets))
        gwBails == route.gw # None /\ msg2.family # 0
                     /\ msg2.family # route.gw.some.family
        msg3 == IF route.gw # None /\ msg2.family = 0
                THEN [msg2 EXCEPT !.family = route.gw.some.family] ELSE msg2
        attrs3 == IF route.gw = None THEN attrs2
                  ELSE Append(attrs2,
                              NetlinkRouteAttrNew(RTA_GATEWAY, route.gw.some.octets))
        msg == [msg3 EXCEPT !.flags = route.flags, !.scope = route.scope]
        AddAll[i \in 0..Len(attrs3)] ==
            IF i = 0 THEN RequestAddData(req0, [msg0 EXCEPT !.flags = route.flags,
                                                              !.scope = route.scope])
            ELSE RequestAddData(AddAll[i - 1], attrs3[i])
    IN IF srcBails THEN Err([kind |-> "src and dst address family mismatch"])
       ELSE IF gwBails THEN Err([kind |-> "gw, src and dst address family mismatch"])
       ELSE Ok(AddAll[Len(attrs3)])

\* route::route_handle on a target of byte order e. The request of the
\* command; the RouteMessage of the command; RTA_OIF unless the command is
\* Show with no oif_index; dst sets the family and dst_len; src and then gw
\* set the family if it is still 0 and bail if it is another; then the
\* caller's flags and scope are written into the message, and the message and
\* the attributes are added to the request.
RouteHandle(cmd, route, e) ==
    LET hd == RouteOp(cmd).header
        req0 == RequestNew(hd.nlmsg_type, hd.nlmsg_flags)
        msg0 == CASE hd.nlmsg_type = RTM_DELROUTE -> NewRtDelMsg
                  [] cmd = "Show" -> NewRtListMsg(route.family)
                  [] OTHER -> NewRtMsg
        attrs0 == IF hd.nlmsg_type # RTM_GETROUTE \/ route.oif_index > 0
                  THEN <<NetlinkRouteAttrNew(RTA_OIF, I32ToNeBytes(route.oif_index, e))>>
                  ELSE <<>>
        msg1 == IF route.dst = None THEN msg0
                ELSE [msg0 EXCEPT !.family = route.dst.some.family,
                                  !.dst_len = route.dst.some.prefix_len]
        attrs1 == IF route.dst = None THEN attrs0
                  ELSE Append(attrs0, NetlinkRouteAttrNew(RTA_DST, route.dst.some.octets))
        srcBails == route.src # None /\ msg1.family # 0
                      /\ msg1.family # route.src.some.family
        msg2 == IF route.src # None /\ msg1.family = 0
                THEN [msg1 EXCEPT !.family = route.src.some.family] ELSE msg1
        attrs2 == IF route.src = None THEN attrs1
                  ELSE Append(attrs1,
                              NetlinkRouteAttrNew(RTA_PREFSRC, route.src.some.octets))
        gwBails == route.gw # None /\ msg2.family # 0
                     /\ msg2.family # route.gw.some.family
        msg3 == IF route.gw # None /\ msg2.family = 0
                THEN [msg2 EXCEPT !.family = route.gw.some.family] ELSE msg2
        attrs3 == IF route.gw = None THEN attrs2
                  ELSE Append(attrs2,
                              NetlinkRouteAttrNew(RTA_GATEWAY, route.gw.some.octets))
        msg == [msg3 EXCEPT !.flags = route.flags, !.scope = route.scope]
        AddAll[i \in 0..Len(attrs3)] ==
            IF i = 0 THEN RequestAddData(req0, msg)
            ELSE RequestAddData(AddAll[i - 1], attrs3[i])
    IN IF srcBails THEN Err([kind |-> "src and dst address family mismatch"])
       ELSE IF gwBails THEN Err([kind |-> "gw, src and dst address family mismatch"])
       ELSE Ok(AddAll[Len(attrs3)])

\* SocketHandle::route_handle, lines 88-89 up to the call of execute: the
\* request is built, and an error of route::route_handle is the verb's result.
\* execute is handed the request; as for every verb, the plan keeps of it what
\* execute reads, the header as NetlinkRequest::new made it.
SocketRouteHandle ==
    /\ pc = "idle"
    /\ nexec < MaxRouteCalls
    /\ \E c \in RouteCalls :
         LET cmd == c[1]
             route == c[2]
             r == RouteHandle(cmd, route, endian)
         IN
         /\ rcall' = [cmd |-> cmd, route |-> route]
         /\ rtreq' = r
         /\ IF r.st = "err"
            THEN /\ verb' = Call("route_handle", <<>>)
                 /\ verbRet' = r
                 /\ pc' = "idle"
            ELSE /\ verb' = Call("route_handle", <<RouteOp(cmd)>>)
                 /\ verbRet' = NoRet
                 /\ pc' = "call"
    /\ UNCHANGED <<seq, build, kmode, req, resType, res, ret, kst, nexec, sent,
                   from, last, nmsg, matched, refRet, refRes>>
    /\ UNCHANGED <<builderVars, codecVars, callVars,
                   facadeVars, pairVars, kernelVars, liveVars>>

\* a handle whose caller runs route verbs, followed up to the point where
\* execute waits in recvfrom: the verb is rejected, or its request is sent, or
\* a system call of the send fails and the verb returns that
InitRoute ==
    /\ DriverInit(U32(0), "release", "any")
    /\ BuilderIdle /\ CodecIdle /\ RouteIdle /\ CallIdle /\ WorldIdle

NextRoute ==
    \/ SocketRouteHandle
    \/ ExecuteSend
    \/ VerbNext

SpecRoute == InitRoute /\ [][NextRoute]_vars

---------------------------------------------------------------------------
(* Part 3: the claims.                                                     *)

\* n rounded up to a multiple of 4
AlignUp4(n) == 4 * ((n + 3) \div 4)

\* the children of a payload
ChildrenOf(d) ==
    IF IsAttr(d) /\ d.children # None THEN d.children.some ELSE <<>>

RECURSIVE Depth(_), DepthAll(_)
\* levels of attributes in a payload: 1 for an attribute without children
Depth(d) == IF ~IsAttr(d) THEN 0 ELSE 1 + DepthAll(ChildrenOf(d))
DepthAll(ds) ==
    IF ds = <<>> THEN 0
    ELSE LET h == Depth(Head(ds)) t == DepthAll(Tail(ds))
         IN IF h > t THEN h ELSE t

RECURSIVE WalkOk(_, _, _)
\* b is the list ds on the wire: walking b from offset 0, each attribute's
\* header is where the walk stands, its type and value are those of the
\* attribute, zeros follow the value up to a multiple of 4, its children are
\* walked the same way from there to the next sibling, the next sibling is
\* align_up(length field, 4) further, and the walk ends where b ends
WalkOk(b, ds, e) ==
    IF ds = <<>> THEN b = <<>>
    ELSE LET d == Head(ds) IN
         IF ~IsAttr(d)
         THEN /\ Len(b) >= DataLen(d)
              /\ WalkOk(SubSeq(b, DataLen(d) + 1, Len(b)), Tail(ds), e)
         ELSE /\ Len(b) >= 4
              /\ LET field == U16FromNeBytes(SubSeq(b, 1, 2), e)
                     next == AlignUp4(field)
                     own == 4 + Len(d.value)
                 IN /\ next <= Len(b)
                    /\ own <= next
                    /\ U16FromNeBytes(SubSeq(b, 3, 4), e) = d.rt_attr.rta_type
                    /\ SubSeq(b, 5, own) = d.value
                    /\ \A i \in (own + 1)..AlignUp4(own) : b[i] = 0
                    /\ WalkOk(SubSeq(b, AlignUp4(own) + 1, next), ChildrenOf(d), e)
                    /\ WalkOk(SubSeq(b, next + 1, Len(b)), Tail(ds), e)

\* C11: every serialized attribute, flat or nested, occupies a multiple of 4
\* bytes with zeros after its value, and in a serialized list the next sibling
\* of an attribute A starts align_up(A's length field, 4) after A.
C11_SiblingsAtAlignedLength ==
    wire # None =>
        /\ Len(wire.val) % 4 = 0
        /\ WalkOk(wire.val, attrs, endian)

\* a list of two attributes serialized, the first three levels deep with a
\* padded value in it, the second padded too
C11_Witness ==
    /\ wire # None
    /\ Len(attrs) = 2
    /\ Depth(attrs[1]) = 3
    /\ PadBytes(attrs[1]) > 0
    /\ PadBytes(attrs[2]) > 0
    /\ Len(wire.val) > 0

\* the length field of the header that stands at offset off of b
FieldAt(b, off, e) == U16FromNeBytes(SubSeq(b, off + 1, off + 2), e)

\* the offset of the i-th payload of the list ds in its serialization
OffsetOf(ds, i) == SumPadded(SubSeq(ds, 1, i - 1))

\* C12: for an attribute without children the length field on the wire is
\* 4 + value length, before padding ("lo" zero-terminated gives 7); the field
\* is rewritten only when children are present.
C12_FlatLengthIsLogical ==
    wire # None =>
        \A i \in DOMAIN attrs :
            attrs[i].children = None =>
                FieldAt(wire.val, OffsetOf(attrs, i), endian)
                    = 4 + Len(attrs[i].value)

RECURSIVE LogicalLen(_), LogicalLenAll(_)
\* header and value of an attribute and of all its descendants, no padding
\* counted
LogicalLen(d) ==
    IF ~IsAttr(d) THEN DataLen(d)
    ELSE 4 + Len(d.value) + LogicalLenAll(ChildrenOf(d))
LogicalLenAll(ds) ==
    IF ds = <<>> THEN 0 ELSE LogicalLen(Head(ds)) + LogicalLenAll(Tail(ds))

RECURSIVE NestedOk(_, _, _)
\* b starts with the list ds on the wire, and for each attribute of ds that
\* has children, at any depth: the length field on the wire is the padded size
\* of its header and value plus the padded sizes of its descendants, while
\* rta_len in memory is the sum of the unpadded lengths
NestedOk(b, ds, e) ==
    IF ds = <<>> THEN TRUE
    ELSE LET d == Head(ds)
             size == PaddedSize(d)
         IN /\ Len(b) >= size
            /\ (IsAttr(d) /\ d.children # None) =>
                   /\ FieldAt(b, 0, e) = size
                   /\ d.rt_attr.rta_len = LogicalLen(d)
                   /\ NestedOk(SubSeq(b, AlignUp4(4 + Len(d.value)) + 1, size),
                               d.children.some, e)
            /\ NestedOk(SubSeq(b, size + 1, Len(b)), Tail(ds), e)

\* C13: for a nested attribute built with add_child and add_child_from_attr,
\* to any depth, the length field on the wire is the padded size of its own
\* header and value plus the serialized sizes of all its descendants, the
\* byte count of its whole serialization, while rta_len in memory sums the
\* unpadded lengths.
C13_NestedLengthIsByteCount ==
    wire # None =>
        /\ Len(wire.val) = SumPadded(attrs)
        /\ NestedOk(wire.val, attrs, endian)

\* one attribute, three levels deep, serialized; its descendants are padded,
\* so the field on the wire is more than rta_len
C13_Witness ==
    /\ wire # None
    /\ Len(attrs) = 1
    /\ Depth(attrs[1]) = 3
    /\ PadBytes(attrs[1]) > 0
    /\ FieldAt(wire.val, 0, endian) = Len(wire.val)
    /\ attrs[1].rt_attr.rta_len < Len(wire.val)

RECURSIVE Overlong(_, _)
\* walking buf by its length fields comes to an attribute whose declared
\* rta_len is more than the bytes that remain
Overlong(buf, e) ==
    /\ Len(buf) >= RT_ATTR_SIZE
    /\ LET rta_len == U16FromNeBytes(SubSeq(buf, 1, 2), e)
           len == AlignUp4(rta_len)
       IN \/ rta_len > Len(buf)
          \/ /\ rta_len >= RT_ATTR_SIZE
             /\ len <= Len(buf)
             /\ Overlong(SubSeq(buf, len + 1, Len(buf)), e)

\* C14: NetlinkRouteAttr::from and NetlinkRouteAttr::map never abort, and
\* return an error value for every input in which some attribute's declared
\* rta_len exceeds the bytes remaining.
C14_OverlongAttrRejected ==
    (parsed # None /\ parsed.fn \in {"from", "map"}) =>
        /\ parsed.ret # Panicked
        /\ Overlong(rbuf, endian) => parsed.ret.st = "err"

RECURSIVE FramesBefore(_, _)
\* the messages of buf that come before the first one whose nlmsg_len is less
\* than 16 or more than the bytes remaining
FramesBefore(buf, e) ==
    IF Len(buf) < 16 THEN <<>>
    ELSE LET header == HeaderFromNeBytes(SubSeq(buf, 1, 16), e)
             n == header.nlmsg_len[1] * LimbMod + header.nlmsg_len[2]
         IN IF header.nlmsg_len[1] >= 2 \/ n < 16 \/ n > Len(buf) THEN <<>>
            ELSE <<[header |-> header, data |-> SubSeq(buf, 17, n)]>>
                   \o FramesBefore(SubSeq(buf, AlignUp4(n) + 1, Len(buf)), e)

\* C15: NetlinkMessage::from, called on any receive buffer, by recv too, never
\* aborts: it returns a result value, and a list it returns holds the messages
\* that come before the first one whose nlmsg_len is less than 16 or more than
\* the bytes remaining; so for a datagram cut at the 65536 bytes of the
\* receive buffer.
C15_FramingStopsCleanly ==
    (parsed # None /\ parsed.fn \in {"message_from", "recv"}) =>
        /\ parsed.ret # Panicked
        /\ (parsed.fn = "message_from" /\ parsed.ret.st = "ok") =>
               parsed.ret.val = FramesBefore(rbuf, endian)
        /\ (parsed.fn = "recv" /\ parsed.ret.st = "ok") =>
               parsed.ret.val.msgs = FramesBefore(rbuf, endian)

---------------------------------------------------------------------------
(* Part 4: the claims.                                                     *)

\* the address families of those of dst, src, gw that a Route holds
PresentFamilies(route) ==
    { a.some.family : a \in { x \in {route.dst, route.src, route.gw} : x # None } }

\* the RouteMessage of a built request: the payload added first
PayloadOf(r) == r.val.data.some[1]

\* C16 as the specification words it: if two or more of dst, src, gw are
\* present and their families differ, route_handle returns an error; if all
\* present ones share a family, the request is built with the payload family
\* set to that family.
C16_MismatchRejectedElseBuilt ==
    rcall # None =>
        LET fams == PresentFamilies(rcall.route) IN
        /\ Cardinality(fams) > 1 => rtreq.st = "err"
        /\ Cardinality(fams) = 1 =>
               /\ rtreq.st = "ok"
               /\ PayloadOf(rtreq).family \in fams

\* the family the RouteMessage has before src and gw are looked at when dst is
\* absent: the Route's family for Show, 0 for the other commands
FamilyAsked(call) ==
    IF call.cmd = "Show" /\ call.route.dst = None THEN call.route.family ELSE 0

C16_Families ==
    rcall # None =>
        LET fams == PresentFamilies(rcall.route)
            asked == FamilyAsked(rcall)
        IN /\ Cardinality(fams) > 1 => rtreq.st = "err"
           /\ (Cardinality(fams) = 1 /\ asked # 0 /\ asked \notin fams) =>
                  rtreq.st = "err"
           /\ (Cardinality(fams) = 1 /\ (asked = 0 \/ asked \in fams)) =>
                  /\ rtreq.st = "ok"
                  /\ PayloadOf(rtreq).family \in fams
           /\ (pc = "idle" /\ rtreq.st = "err") => verbRet = rtreq

\* C16: if two or more of dst, src, gw are present and their families differ,
\* or if the command is Show, dst is absent and the Route's non-zero family is
\* not the family of the src or gw present, route_handle returns an error, the
\* verb returns it, sends nothing and leaves the sequence counter as it was;
\* in every other case where some of them are present the request is built
\* with the payload family set to their family.
C16_MismatchOrAskedFamilyRejected ==
    /\ []C16_Families
    /\ [][(pc = "idle" /\ rtreq' # None /\ rtreq'.st = "err") =>
             /\ pc' = "idle"
             /\ verbRet' = rtreq'
             /\ seq' = seq
             /\ sent' = sent
             /\ nexec' = nexec]_vars

\* Add with an IPv4 dst and an IPv6 gw was rejected: the verb has returned the
\* error and nothing was sent
C16_Witness ==
    /\ rcall # None
    /\ rcall.cmd = "Add"
    /\ rcall.route.dst # None /\ rcall.route.dst.some.family = AF_INET
    /\ rcall.route.src = None
    /\ rcall.route.gw # None /\ rcall.route.gw.some.family = AF_INET6
    /\ rtreq.st = "err"
    /\ pc = "idle"
    /\ verbRet = rtreq
    /\ sent = <<>>
    /\ seq = U32(0)

\* C17: when the caller leaves the Route's scope at its default, a request
\* built for Del carries table RT_TABLE_MAIN and scope RT_SCOPE_NOWHERE in its
\* RouteMessage, and one built for Add, Append or Replace carries
\* RT_TABLE_MAIN, RTPROT_BOOT, RT_SCOPE_UNIVERSE and RTN_UNICAST.
C17_RouteBaselines ==
    (rcall # None /\ rtreq.st = "ok" /\ rcall.route.scope = 0) =>
        LET msg == PayloadOf(rtreq) IN
        /\ rcall.cmd = "Del" =>
               /\ msg.table = RT_TABLE_MAIN
               /\ msg.scope = RT_SCOPE_NOWHERE
        /\ rcall.cmd \in {"Add", "Append", "Replace"} =>
               /\ msg.table = RT_TABLE_MAIN
               /\ msg.protocol = RTPROT_BOOT
               /\ msg.scope = RT_SCOPE_UNIVERSE
               /\ msg.rtm_type = RTN_UNICAST

---------------------------------------------------------------------------
(* Part 1: the claims about the verbs.                                     *)

\* the verb is about to take the result of a link_get transaction
LinkGetReturns == pc = "ret" /\ Head(verb.plan).fn = "link_get"

\* C18: link_get returns a link only when its transaction completed with
\* exactly one collected payload; with none it fails with "no link found",
\* with more than one with "multiple links found", and an error of the
\* transaction is passed through unchanged.
C18_LinkGetWantsOnePayload ==
    [][LinkGetReturns =>
         /\ ret.st # "ok" => (verbRet' = ret /\ pc' = "idle")
         /\ (ret.st = "ok" /\ Len(ret.val) = 0) =>
                (verbRet' = Err([kind |-> "no link found"]) /\ pc' = "idle")
         /\ (ret.st = "ok" /\ Len(ret.val) > 1) =>
                (verbRet' = Err([kind |-> "multiple links found"]) /\ pc' = "idle")
         /\ (verbRet'.st = "ok" \/ pc' = "call") =>
                (ret.st = "ok" /\ Len(ret.val) = 1)
         /\ (ret.st = "ok" /\ Len(ret.val) = 1 /\ verb.name = "link_get") =>
                verbRet' = Ok(ret.val)]_vars

\* link_get has failed with "multiple links found" after a transaction that
\* collected two payloads
C18_Witness ==
    /\ verb.name = "link_get"
    /\ pc = "idle"
    /\ ret.st = "ok"
    /\ Len(ret.val) = 2
    /\ verbRet = Err([kind |-> "multiple links found"])

\* the verbs that run ensure_index before they build their command
IndexVerbs == {"link_del", "link_setup", "addr_handle"}

\* C19: in link_del, link_setup and addr_handle, when attrs.index is 0 the
\* first request on the wire is the RTM_GETLINK lookup, the command goes out
\* only after that lookup returned one link and is built with that link's
\* index, and a lookup that fails ends the verb with nothing more sent; when
\* attrs.index is not 0 the only request is the command, built with
\* attrs.index.
C19_IndexLookedUpWhenZero ==
    [][/\ (verb.name \in IndexVerbs /\ pc = "call" /\ sent' # sent) =>
            LET op == Head(verb.plan) IN
            IF verb.attrs.index # 0
            THEN /\ op.fn = verb.name
                 /\ req'.nlmsg_type # RTM_GETLINK
                 /\ verb.index = verb.attrs.index
            ELSE \/ /\ op.fn = "link_get"
                    /\ req'.nlmsg_type = RTM_GETLINK
                    /\ Len(verb.plan) = 2
                 \/ /\ op.fn = verb.name
                    /\ req'.nlmsg_type # RTM_GETLINK
                    /\ req.nlmsg_type = RTM_GETLINK
                    /\ req.nlmsg_seq = sent[Len(sent)]
                    /\ ret.st = "ok"
                    /\ Len(ret.val) = 1
                    /\ verb.index = LinkIndex(ret.val[1])
       /\ (verb.name \in IndexVerbs /\ LinkGetReturns
             /\ (ret.st # "ok" \/ Len(ret.val) # 1)) =>
            /\ pc' = "idle"
            /\ verbRet'.st = "err"
            /\ sent' = sent]_vars

\* link_del by name: the lookup returned the link of index 237, and the
\* RTM_DELLINK for that index is on the wire
C19_Witness ==
    /\ verb.name = "link_del"
    /\ verb.attrs.index = 0
    /\ verb.index = 237
    /\ pc = "recv"
    /\ req.nlmsg_type = RTM_DELLINK
    /\ Len(sent) = 2

\* link_new's RTM_NEWLINK transaction has returned
CreateReturns ==
    verb.name = "link_new" /\ pc = "ret" /\ Head(verb.plan).fn = "link_new"

\* execute is entered with a link_set_master request
MasterIssued ==
    pc = "call" /\ nexec' > nexec /\ Head(verb.plan).fn = "link_set_master"

\* link_set_master is issued only by a link_new with a master_index, after a
\* transaction that returned Ok; a create that failed, or one without a
\* master_index, ends the verb
MasterNeverWithout ==
    /\ MasterIssued =>
          /\ verb.name = "link_new"
          /\ verb.attrs.master_index # 0
          /\ ret.st = "ok"
          /\ req.nlmsg_type \in {RTM_NEWLINK, RTM_GETLINK}
    /\ (pc = "idle" /\ pc' = "call" /\ verb'.name = "link_new") =>
          Head(verb'.plan).fn = "link_new"
    /\ (CreateReturns /\ (ret.st # "ok" \/ verb.attrs.master_index = 0)) =>
          pc' = "idle"

\* C20 as stated: a link_new with a master_index whose RTM_NEWLINK transaction
\* succeeded does not return before it has issued link_set_master, and
\* link_set_master is never issued after a failed create or without a
\* master_index.
C20_MasterAlwaysAfterCreate ==
    [][/\ MasterNeverWithout
       /\ (verb.name = "link_new" /\ verb.attrs.master_index # 0
             /\ pc = "ret" /\ pc' = "idle") =>
            \/ Head(verb.plan).fn = "link_new" /\ ret.st # "ok"
            \/ Head(verb.plan).fn = "link_set_master"]_vars

\* C20 as the code has it: after a create that succeeded, a link_new with a
\* master_index goes on to link_set_master when attrs.index is not 0, and to
\* the lookup by name when it is 0; link_set_master then follows a lookup
\* that returned one link, with that link's index, and a lookup that fails
\* ends link_new with the error and no link_set_master. link_set_master is
\* never issued after a failed create or without a master_index.
C20_MasterAfterCreateAndIndex ==
    [][/\ MasterNeverWithout
       /\ (CreateReturns /\ ret.st = "ok" /\ verb.attrs.master_index # 0) =>
            /\ pc' = "call"
            /\ Head(verb'.plan).fn =
                 IF verb.attrs.index # 0 THEN "link_set_master" ELSE "link_get"
       /\ (verb.name = "link_new" /\ LinkGetReturns) =>
            IF ret.st = "ok" /\ Len(ret.val) = 1
            THEN /\ pc' = "call"
                 /\ Head(verb'.plan).fn = "link_set_master"
                 /\ verb'.index = LinkIndex(ret.val[1])
            ELSE /\ pc' = "idle"
                 /\ verbRet'.st = "err"
                 /\ sent' = sent
       /\ (MasterIssued /\ verb.attrs.index # 0) =>
            verb.index = verb.attrs.index]_vars

\* link_new with a master_index and a known index: the create was acked and
\* the link_set_master request is on the wire
C20_Witness ==
    /\ verb.name = "link_new"
    /\ verb.attrs.master_index # 0
    /\ verb.attrs.index # 0
    /\ pc = "recv"
    /\ Head(verb.plan).fn = "link_set_master"
    /\ Len(sent) = 2

---------------------------------------------------------------------------
(* Part 5: the functions of utils.rs, called on their own.                 *)
(*                                                                         *)
(* A usize is kept as its 16-bit limbs, the most significant first: two on *)
(* a 32-bit target (wasm32), four on a 64-bit one. An overflow of + or -   *)
(* panics in a debug build and wraps in a release build.                   *)

\* usize::BITS of the targets
UsizeBits == {32, 64}

\* n < 2^16 as a usize
UsizeOf(n, bits) == [i \in 1..(bits \div 16) |-> IF i = bits \div 16 THEN n ELSE 0]

\* usize::MAX - k, for k < 2^16
UsizeMaxLess(k, bits) ==
    [i \in 1..(bits \div 16) |->
        IF i = bits \div 16 THEN LimbMod - 1 - k ELSE LimbMod - 1]

RECURSIVE UsizeCarry(_, _, _)
\* a with k added at limb i: the carry runs up to the first limb, and out of it
UsizeCarry(a, i, k) ==
    IF k = 0 THEN [v |-> a, wrapped |-> FALSE]
    ELSE IF i = 0 THEN [v |-> a, wrapped |-> TRUE]
    ELSE LET t == a[i] + k
         IN UsizeCarry([a EXCEPT ![i] = t % LimbMod], i - 1, t \div LimbMod)

\* a + k for k < 2^16, with whether it wrapped
UsizeAdd(a, k) == UsizeCarry(a, Len(a), k)

RECURSIVE UsizeBorrow(_, _)
\* a with 1 taken from limb i
UsizeBorrow(a, i) ==
    IF i = 0 THEN [v |-> a, wrapped |-> TRUE]
    ELSE IF a[i] > 0 THEN [v |-> [a EXCEPT ![i] = a[i] - 1], wrapped |-> FALSE]
    ELSE UsizeBorrow([a EXCEPT ![i] = LimbMod - 1], i - 1)

\* a - 1, with whether it wrapped
UsizeDec(a) == UsizeBorrow(a, Len(a))

\* a & !m for m < 2^16: the limbs of !m above the last are all ones
UsizeAndNot(a, m) ==
    [a EXCEPT ![Len(a)] = BitAnd(a[Len(a)], LimbMod - 1 - m)]

\* align_of without the mask
AlignOfUsizeNoMask(len, align_to, profile) ==
    LET sum == UsizeAdd(len, align_to)
        dec == UsizeDec(sum.v)
    IN IF profile = "debug" /\ (sum.wrapped \/ dec.wrapped) THEN Panicked
       ELSE Ok(dec.v)

\* utils::align_of, line 6: (len + align_to - 1) & !(align_to - 1), that is
\* ((len + align_to) - 1) & !(align_to - 1) on usize
AlignOfUsize(len, align_to, profile) ==
    LET sum == UsizeAdd(len, align_to)
        dec == UsizeDec(sum.v)
    IN IF profile = "debug" /\ (sum.wrapped \/ dec.wrapped) THEN Panicked
       ELSE Ok(UsizeAndNot(dec.v, align_to - 1))

\* an IpAddr: V4 is a 32-bit number and V6 eight 16-bit segments, both in
\* network order
IpAddrV4(hi, lo) == [v |-> "V4", bits |-> <<hi, lo>>]
IpAddrV6(segments) == [v |-> "V6", segments |-> segments]

\* IpAddr::from([u8; 4]) and IpAddr::from([u8; 16])
IpAddrFrom4(b) == IpAddrV4(b[1] * 256 + b[2], b[3] * 256 + b[4])
IpAddrFrom16(b) ==
    IpAddrV6([i \in 1..8 |-> b[2 * i - 1] * 256 + b[2 * i]])

\* Ipv4Addr::octets and Ipv6Addr::octets
Octets(ip) ==
    IF ip.v = "V4"
    THEN <<ip.bits[1] \div 256, ip.bits[1] % 256,
           ip.bits[2] \div 256, ip.bits[2] % 256>>
    ELSE [i \in 1..16 |->
            IF i % 2 = 1 THEN ip.segments[(i + 1) \div 2] \div 256
            ELSE ip.segments[i \div 2] % 256]

\* vec_to_addr that knows IPv4 only
VecToAddrV4Only(vec) ==
    IF Len(vec) = 4 THEN Ok(IpAddrFrom4(vec))
    ELSE Err([kind |-> "invalid address length", len |-> Len(vec)])

\* utils::vec_to_addr, lines 17-29
VecToAddr(vec) ==
    CASE Len(vec) = 4 -> Ok(IpAddrFrom4(vec))
      [] Len(vec) = 16 -> Ok(IpAddrFrom16(vec))
      [] OTHER -> Err([kind |-> "invalid address length", len |-> Len(vec)])

\* the lengths align_of is called with: small ones, the ones around 2^16
\* where the sum carries, and the last ones of usize
AlignLens(bits) ==
    {UsizeOf(n, bits) : n \in 0..MaxVecLen \cup {LimbMod - 3, LimbMod - 2, LimbMod - 1}}
      \cup {UsizeMaxLess(k, bits) : k \in 0..8}

\* the powers of two it is called with
AlignTos == {1, 2, 4, 8}

\* the addresses whose octets are decoded
IpAddrs ==
    {IpAddrV4(0, 0), IpAddrV4(10 * 256, 1), IpAddrV4(LimbMod - 1, LimbMod - 1),
     IpAddrV4(258, 772),
     IpAddrV6([i \in 1..8 |-> 0]),
     IpAddrV6([i \in 1..8 |-> IF i = 1 THEN 64768 ELSE IF i = 8 THEN 1 ELSE 0]),
     IpAddrV6([i \in 1..8 |-> IF i = 6 THEN LimbMod - 1
                              ELSE IF i = 7 THEN 2560 ELSE IF i = 8 THEN 1 ELSE 0]),
     IpAddrV6([i \in 1..8 |-> LimbMod - 1])}

\* the byte vectors decoded: of every length from 0 to MaxVecLen
AddrVecs == {[i \in 1..n |-> b + i] : n \in 0..MaxVecLen, b \in {0, 200}}

AlignCalls(bits) ==
    {[fn |-> "align_of", len |-> l, align_to |-> a, bits |-> bits, build |-> b] :
        l \in AlignLens(bits), a \in AlignTos, b \in {"debug", "release"}}

UtilCalls ==
    UNION {AlignCalls(bits) : bits \in UsizeBits}
      \cup {[fn |-> "vec_to_addr", vec |-> Octets(ip), ip |-> Some(ip)] :
              ip \in IpAddrs}
      \cup {[fn |-> "vec_to_addr", vec |-> v, ip |-> None] : v \in AddrVecs}

\* align_of(len, align_to)
CallAlignOf ==
    /\ fcall.fn = "align_of"
    /\ fret = None
    /\ fret' = AlignOfUsize(fcall.len, fcall.align_to, fcall.build)
    /\ UNCHANGED fcall
    /\ UNCHANGED <<driverVars, builderVars, codecVars, routeVars,
                   facadeVars, pairVars, kernelVars, liveVars>>

\* vec_to_addr(vec)
CallVecToAddr ==
    /\ fcall.fn = "vec_to_addr"
    /\ fret = None
    /\ fret' = VecToAddr(fcall.vec)
    /\ UNCHANGED fcall
    /\ UNCHANGED <<driverVars, builderVars, codecVars, routeVars,
                   facadeVars, pairVars, kernelVars, liveVars>>

\* a caller of utils.rs, on either target and in either build
InitUtil ==
    /\ DriverInit(U32(0), "release", "any")
    /\ BuilderIdle /\ CodecIdle /\ RouteIdle /\ WorldIdle
    /\ fcall \in UtilCalls
    /\ fret = None

NextUtil ==
    \/ CallAlignOf
    \/ CallVecToAddr

SpecUtil == InitUtil /\ [][NextUtil]_vars

---------------------------------------------------------------------------
(* Part 5: the claims about utils.rs.                                      *)

\* lexicographic order of limbs: a <= b and a < b
UsizeLe(a, b) ==
    \A i \in 1..Len(a) : (\A j \in 1..(i - 1) : a[j] = b[j]) => a[i] <= b[i]
UsizeLtStrict(a, b) == UsizeLe(a, b) /\ a # b

\* a usize as a number one limb wider, where len + align_to does not wrap
Wide(a) == <<0>> \o a

\* align_of has returned
AlignOfReturned == fcall # None /\ fcall.fn = "align_of" /\ fret # None

\* C27: for every n and every power of two a, align_of(n, a) is the smallest
\* multiple of a that is at least n, and align_of(n, 4) is (n + 3) & ~3.
C27_AlignOfIsSmallestMultiple ==
    AlignOfReturned =>
        /\ fret.st = "ok"
        /\ fret.val[Len(fret.val)] % fcall.align_to = 0
        /\ UsizeLe(fcall.len, fret.val)
        /\ UsizeLtStrict(Wide(fret.val),
                         UsizeAdd(Wide(fcall.len), fcall.align_to).v)
        /\ fcall.align_to = 4 =>
             LET x == UsizeAdd(Wide(fcall.len), 3).v
             IN Wide(fret.val) = [x EXCEPT ![Len(x)] = x[Len(x)] - (x[Len(x)] % 4)]

\* vec_to_addr has returned
VecToAddrReturned == fcall # None /\ fcall.fn = "vec_to_addr" /\ fret # None

\* C28: vec_to_addr returns a v4 address for 4 bytes, a v6 address for 16
\* bytes and an "invalid address length" error for every other length, and
\* it returns ip when given the octets of ip.
C28_VecToAddrByLength ==
    VecToAddrReturned =>
        /\ Len(fcall.vec) = 4 => (fret.st = "ok" /\ fret.val.v = "V4")
        /\ Len(fcall.vec) = 16 => (fret.st = "ok" /\ fret.val.v = "V6")
        /\ Len(fcall.vec) \notin {4, 16} =>
             (fret.st = "err" /\ fret.err.kind = "invalid address length")
        /\ fcall.ip # None => fret = Ok(fcall.ip.some)
        /\ fret.st = "ok" => Octets(fret.val) = fcall.vec

\* the octets of the IPv4-mapped address ::ffff:10.0.0.1 came back as that
\* v6 address
C28_Witness ==
    /\ VecToAddrReturned
    /\ fcall.ip # None
    /\ fret.st = "ok"
    /\ fret.val.v = "V6"
    /\ fret.val.segments[6] = LimbMod - 1
    /\ fret.val.segments[7] = 2560

---------------------------------------------------------------------------
(* Part 5: NetlinkSocket::send, called on its own.                         *)

\* NetlinkSocket::send, lines 44-48: one sendto, whose return value is -1
\* or the number of bytes written; only ret < 0 is an error
SocketSend(buf_len, sys) ==
    IF sys < 0 THEN Err([kind |-> "os"]) ELSE Ok(<<>>)

\* the calls of send: a buffer of up to MaxSendLen bytes, and what sendto
\* returns for it, -1 or a count up to the length
SendCalls ==
    {[fn |-> "send", buf_len |-> c[1], sys |-> c[2]] :
        c \in {d \in (0..MaxSendLen) \X (-1..MaxSendLen) : d[2] <= d[1]}}

\* socket.send(&buf)
CallSend ==
    /\ fcall.fn = "send"
    /\ fret = None
    /\ fret' = SocketSend(fcall.buf_len, fcall.sys)
    /\ UNCHANGED fcall
    /\ UNCHANGED <<driverVars, builderVars, codecVars, routeVars,
                   facadeVars, pairVars, kernelVars, liveVars>>

InitSend ==
    /\ DriverInit(U32(0), "release", "any")
    /\ BuilderIdle /\ CodecIdle /\ RouteIdle /\ WorldIdle
    /\ fcall \in SendCalls
    /\ fret = None

NextSend == CallSend

SpecSend == InitSend /\ [][NextSend]_vars

\* C24: send returns an error whenever sendto fails or writes fewer bytes
\* than the buffer holds, and success only when the whole buffer was written.
C24_ShortWriteIsAnError ==
    (fcall # None /\ fcall.fn = "send" /\ fret # None) =>
        (fret.st = "ok" <=> fcall.sys = fcall.buf_len)

---------------------------------------------------------------------------
(* Part 5: execute's for-loop, run over one datagram.                      *)

RECURSIVE ForLoop(_, _, _, _, _, _)
\* handle.rs lines 159-190, `for m in msgs`, from message i on with res = r:
\* how the loop ends ("continue": the datagram is used up and the outer loop
\* calls recv again), res, and how many messages it examined
ForLoop(msgs, i, rq, pid, rt, r) ==
    IF i > Len(msgs) THEN [ctl |-> "continue", res |-> r, taken |-> Len(msgs)]
    ELSE LET step == ExecMsg(msgs[i], rq, pid, rt, r)
         IN IF step.ctl = "continue"
            THEN ForLoop(msgs, i + 1, rq, pid, rt, step.res)
            ELSE [ctl |-> step.ctl, res |-> step.res, taken |-> i]

\* the request of an address dump, sent with seq 2
LoopReq == [AddrListOp.header EXCEPT !.nlmsg_seq = U32(2)]

\* the messages of a datagram: an end of dump, an address, a link; part of a
\* multipart reply or not; for this request, for the one before it, or for
\* the same seq of another socket
LoopMsgs ==
    {Msg(t, f, sp[1], sp[2], d) :
        t \in {NLMSG_DONE, RTM_NEWADDR, RTM_NEWLINK},
        f \in {0, NLM_F_MULTI},
        sp \in {<<U32(2), SockPid>>, <<U32(1), SockPid>>, <<U32(2), OtherPid>>},
        d \in {Data0, DataE}}

\* the datagrams: up to MaxDatagram messages
LoopDatagrams == UNION {[1..n -> LoopMsgs] : n \in 1..MaxDatagram}

\* the loop's inputs: a datagram, and execute's res_type, given (addr_list) or
\* 0 (route_list)
LoopCalls ==
    {[fn |-> "for", msgs |-> d, rt |-> rt] :
        d \in LoopDatagrams, rt \in {0, RTM_NEWADDR}}

\* for m in msgs { .. }
CallFor ==
    /\ fcall.fn = "for"
    /\ fret = None
    /\ fret' = ForLoop(fcall.msgs, 1, LoopReq, SockPid, fcall.rt, <<>>)
    /\ UNCHANGED fcall
    /\ UNCHANGED <<driverVars, builderVars, codecVars, routeVars,
                   facadeVars, pairVars, kernelVars, liveVars>>

InitLoop ==
    /\ DriverInit(U32(0), "release", "any")
    /\ BuilderIdle /\ CodecIdle /\ RouteIdle /\ WorldIdle
    /\ fcall \in LoopCalls
    /\ fret = None

NextLoop == CallFor

SpecLoop == InitLoop /\ [][NextLoop]_vars

\* the loop has run
ForReturned == fcall # None /\ fcall.fn = "for" /\ fret # None

\* the positions of the datagram's messages that satisfy P
Positions(P(_)) == {i \in 1..Len(fcall.msgs) : P(fcall.msgs[i])}

\* the least of a non-empty set of numbers
Least(S) == CHOOSE i \in S : \A j \in S : i <= j

\* the loop ended at the first message of S, if there is one, and used the
\* datagram up otherwise
EndsAtFirst(S) ==
    IF S = {} THEN fret.ctl = "continue" /\ fret.taken = Len(fcall.msgs)
    ELSE fret.ctl # "continue" /\ fret.taken = Least(S)

\* m has no NLM_F_MULTI
IsSingle(m) == ~HasMulti(m)

\* m is for this request; it is an end of dump or an error, or it is of the
\* type asked for and has no NLM_F_MULTI
StopsLoop(m) ==
    /\ Matches(m, LoopReq, SockPid)
    /\ \/ IsTerminator(m)
       \/ /\ fcall.rt = 0 \/ m.header.nlmsg_type = fcall.rt
          /\ IsSingle(m)

\* C30 as stated: the first message without NLM_F_MULTI ends the loop and the
\* transaction, whether or not it carries the request's (seq, pid); nothing
\* after it is examined.
C30_FirstSingleStopsLoop ==
    (ForReturned /\ Positions(IsSingle) # {}) =>
        /\ fret.ctl # "continue"
        /\ fret.taken <= Least(Positions(IsSingle))

\* C30 as the code has it: the loop ends at the first message that carries
\* the request's (seq, pid) and is a terminator, or passes the type filter
\* without NLM_F_MULTI; a message that fails the (seq, pid) test or the type
\* filter never ends it, with or without NLM_F_MULTI.
C30_FirstMatchingSingleStopsLoop ==
    ForReturned => EndsAtFirst(Positions(StopsLoop))

\* a datagram whose first message is for another socket and has no
\* NLM_F_MULTI: the loop went past it and ended at the second message
C30_Witness ==
    /\ ForReturned
    /\ Len(fcall.msgs) = 2
    /\ ~Matches(fcall.msgs[1], LoopReq, SockPid)
    /\ IsSingle(fcall.msgs[1])
    /\ fret.taken = 2
    /\ fret.ctl = "done"

---------------------------------------------------------------------------
(* Part 5: the list verbs, from what execute returned to what they return. *)
(* The host is little-endian, as in Part 1.                                *)

IFA_ADDRESS == 1
RTA_IIF == 3

\* IpNet::new: the prefix length is checked against the family's maximum
IpNetNew(ip, prefix_len) ==
    IF prefix_len > (IF ip.v = "V4" THEN 32 ELSE 128)
    THEN Err([kind |-> "invalid prefix length"])
    ELSE Ok([addr |-> ip, prefix_len |-> prefix_len])

\* IpNet::default(): 0.0.0.0/0
IpNetDefault == [addr |-> IpAddrV4(0, 0), prefix_len |-> 0]

RECURSIVE AddrAttrLoop(_, _, _, _)
\* addr_deserialize, lines 56-75: the loop over the attributes from the i-th
\* on; only IFA_ADDRESS is read, and ? returns its error
AddrAttrLoop(rt_attrs, i, addr, prefix_len) ==
    IF i > Len(rt_attrs) THEN Ok(addr)
    ELSE LET attr == rt_attrs[i] IN
         IF attr.rt_attr.rta_type = IFA_ADDRESS
         THEN LET ip == VecToAddr(attr.value) IN
              IF ip.st # "ok" THEN ip
              ELSE LET net == IpNetNew(ip.val, prefix_len) IN
                   IF net.st # "ok" THEN net
                   ELSE AddrAttrLoop(rt_attrs, i + 1,
                                     [addr EXCEPT !.address = net.val], prefix_len)
         ELSE AddrAttrLoop(rt_attrs, i + 1, addr, prefix_len)

\* addr::addr_deserialize: AddressMessage::deserialize slices buf[..8] and
\* panics on a shorter payload; NetlinkRouteAttr::from panics on a malformed
\* attribute
AddrDeserialize(buf) ==
    IF Len(buf) < IF_ADDR_MSG_SIZE THEN Panicked
    ELSE LET prefix_len == buf[2]
             scope == buf[4]
             index == I32FromNeBytes(SubSeq(buf, 5, 8))
             rt_attrs == NetlinkRouteAttrFrom(
                             SubSeq(buf, IF_ADDR_MSG_SIZE + 1, Len(buf)), "little")
         IN IF rt_attrs.st # "ok" THEN rt_attrs
            ELSE AddrAttrLoop(rt_attrs.val, 1,
                              [index |-> index, scope |-> scope,
                               address |-> IpNetDefault],
                              prefix_len)

RECURSIVE RouteAttrLoop(_, _, _, _)
\* route_deserialize, lines 56-76: attr.value[..4] panics on a value shorter
\* than 4 bytes
RouteAttrLoop(rt_attrs, i, route, dst_len) ==
    IF i > Len(rt_attrs) THEN Ok(route)
    ELSE LET attr == rt_attrs[i]
             t == attr.rt_attr.rta_type
             ip == VecToAddr(attr.value)
         IN CASE t \in {RTA_GATEWAY, RTA_PREFSRC} ->
                   IF ip.st # "ok" THEN ip
                   ELSE RouteAttrLoop(rt_attrs, i + 1,
                            IF t = RTA_GATEWAY
                            THEN [route EXCEPT !.gw = Some(ip.val)]
                            ELSE [route EXCEPT !.src = Some(ip.val)],
                            dst_len)
              [] t = RTA_DST ->
                   IF ip.st # "ok" THEN ip
                   ELSE LET net == IpNetNew(ip.val, dst_len) IN
                        IF net.st # "ok" THEN net
                        ELSE RouteAttrLoop(rt_attrs, i + 1,
                                 [route EXCEPT !.dst = Some(net.val)], dst_len)
              [] t \in {RTA_OIF, RTA_IIF} ->
                   IF Len(attr.value) < 4 THEN Panicked
                   ELSE LET n == I32FromNeBytes(SubSeq(attr.value, 1, 4)) IN
                        RouteAttrLoop(rt_attrs, i + 1,
                            IF t = RTA_OIF
                            THEN [route EXCEPT !.oif_index = n]
                            ELSE [route EXCEPT !.iif_index = n],
                            dst_len)
              [] OTHER -> RouteAttrLoop(rt_attrs, i + 1, route, dst_len)

\* route::route_deserialize
RouteDeserialize(buf) ==
    IF Len(buf) < ROUTE_MSG_SIZE THEN Panicked
    ELSE LET dst_len == buf[2]
             rt_attrs == NetlinkRouteAttrFrom(
                             SubSeq(buf, ROUTE_MSG_SIZE + 1, Len(buf)), "little")
         IN IF rt_attrs.st # "ok" THEN rt_attrs
            ELSE RouteAttrLoop(rt_attrs.val, 1,
                               [oif_index |-> 0, iif_index |-> 0,
                                family |-> buf[1], dst |-> None, src |-> None,
                                gw |-> None, tos |-> buf[4], table |-> buf[5],
                                protocol |-> buf[6], scope |-> buf[7],
                                rtm_type |-> buf[8]],
                               dst_len)

\* .into_iter().filter_map(|m| deserialize(&m).ok()) over the decoded
\* payloads: a panic of any deserialize is a panic of the verb, an Err is
\* dropped by .ok()
FilterMapOk(decoded) ==
    IF \E i \in DOMAIN decoded : decoded[i] = Panicked THEN Panicked
    ELSE LET IsOk(r) == r.st = "ok"
             oks == SelectSeq(decoded, IsOk)
         IN Ok([i \in 1..Len(oks) |-> oks[i].val])

\* an addr_list that keeps the addresses of every link
AddrListNoFilter(exec, index) ==
    IF exec.st # "ok" THEN exec
    ELSE FilterMapOk([i \in 1..Len(exec.val) |-> AddrDeserialize(exec.val[i])])

\* addr_list, lines 79-84, given what execute returned and link.attrs().index
AddrList(exec, index) ==
    IF exec.st # "ok" THEN exec
    ELSE LET Keep(addr) == addr.index = index
             addrs == FilterMapOk([i \in 1..Len(exec.val) |->
                                    AddrDeserialize(exec.val[i])])
         IN IF addrs = Panicked THEN Panicked
            ELSE Ok(SelectSeq(addrs.val, Keep))

\* route_get, lines 96-100
RouteGet(exec) ==
    IF exec.st # "ok" THEN exec
    ELSE FilterMapOk([i \in 1..Len(exec.val) |-> RouteDeserialize(exec.val[i])])

\* route_list, lines 117-125, given index and filter_mask
RouteList(exec, index, filter_mask) ==
    IF exec.st # "ok" THEN exec
    ELSE LET Keep(route) ==
                 IF filter_mask = "Oif" THEN route.oif_index = index ELSE TRUE
             routes == FilterMapOk([i \in 1..Len(exec.val) |->
                                     RouteDeserialize(exec.val[i])])
         IN IF routes = Panicked THEN Panicked
            ELSE Ok(SelectSeq(routes.val, Keep))

\* what the kernel puts in a payload: an attribute with its unpadded length,
\* padded to 4 bytes; an ifaddrmsg and an rtmsg followed by attributes
KernelAttr(rta_type, value) ==
    LeBytes16(RT_ATTR_SIZE + Len(value)) \o LeBytes16(rta_type) \o value
      \o [i \in 1..(AlignOf(Len(value), RTA_ALIGNTO) - Len(value)) |-> 0]
KernelAddr(family, prefix_len, index, rt_attrs) ==
    <<family, prefix_len, 0, 0>> \o LeBytes32(index) \o rt_attrs
KernelRoute(family, dst_len, rt_attrs) ==
    <<family, dst_len, 0, 0, RT_TABLE_MAIN, RTPROT_BOOT, RT_SCOPE_UNIVERSE,
      RTN_UNICAST>> \o LeBytes32(0) \o rt_attrs

\* the address payloads execute collects: addresses of link 1 (IPv4, IPv6,
\* one without attributes) and of link 2, then the ones that do not decode:
\* an address of 5 bytes, a prefix length of 33, a payload of 4 bytes, and an
\* attribute that declares more bytes than there are
AddrPayloads ==
    {KernelAddr(AF_INET, 24, 1, KernelAttr(IFA_ADDRESS, <<10, 0, 0, 1>>)),
     KernelAddr(AF_INET6, 64, 1,
                KernelAttr(IFA_ADDRESS, Octets(IpAddrV6([i \in 1..8 |->
                    IF i = 1 THEN 64768 ELSE IF i = 8 THEN 1 ELSE 0])))),
     KernelAddr(AF_INET, 8, 1, <<>>),
     KernelAddr(AF_INET, 24, 2, KernelAttr(IFA_ADDRESS, <<10, 0, 1, 1>>)),
     KernelAddr(AF_INET, 24, 1, KernelAttr(IFA_ADDRESS, <<10, 0, 0, 1, 9>>)),
     KernelAddr(AF_INET, 33, 1, KernelAttr(IFA_ADDRESS, <<10, 0, 0, 2>>)),
     DataE,
     KernelAddr(AF_INET, 24, 1, <<12, 0, 1, 0, 10, 0, 0, 1>>)}

\* the route payloads: routes out of link 1 and link 2, a route without
\* RTA_OIF, then a gateway of 5 bytes, a dst_len of 33, an RTA_OIF of 2
\* bytes, and a payload shorter than an rtmsg
RoutePayloads ==
    {KernelRoute(AF_INET, 24, KernelAttr(RTA_DST, <<10, 0, 0, 0>>)
                                \o KernelAttr(RTA_OIF, LeBytes32(1))),
     KernelRoute(AF_INET, 0, KernelAttr(RTA_GATEWAY, <<10, 0, 1, 1>>)
                               \o KernelAttr(RTA_OIF, LeBytes32(2))),
     KernelRoute(AF_INET, 0, KernelAttr(RTA_PREFSRC, <<10, 0, 0, 1>>)),
     KernelRoute(AF_INET, 0, KernelAttr(RTA_GATEWAY, <<10, 0, 1, 1, 9>>)
                               \o KernelAttr(RTA_OIF, LeBytes32(1))),
     KernelRoute(AF_INET, 33, KernelAttr(RTA_DST, <<10, 0, 0, 0>>)
                                \o KernelAttr(RTA_OIF, LeBytes32(1))),
     KernelRoute(AF_INET, 0, KernelAttr(RTA_OIF, <<1, 0>>)),
     KernelAddr(AF_INET, 24, 1, <<>>)}

\* what execute returned: the payloads it collected, or an error
ExecResults(payloads) ==
    {Ok(l) : l \in UNION {[1..n -> payloads] : n \in 0..MaxReplies}}
      \cup {Err([kind |-> "os"])}

ListCalls ==
    {[fn |-> "addr_list", exec |-> x, index |-> i] :
        x \in ExecResults(AddrPayloads), i \in {1, 2}}
      \cup {[fn |-> "route_get", exec |-> x] : x \in ExecResults(RoutePayloads)}
      \cup {[fn |-> "route_list", exec |-> x, index |-> i, filter_mask |-> f] :
              x \in ExecResults(RoutePayloads), i \in {0, 1},
              f \in {"Oif", "None"}}

CallAddrList ==
    /\ fcall.fn = "addr_list"
    /\ fret = None
    /\ fret' = AddrList(fcall.exec, fcall.index)
    /\ UNCHANGED fcall
    /\ UNCHANGED <<driverVars, builderVars, codecVars, routeVars,
                   facadeVars, pairVars, kernelVars, liveVars>>

CallRouteGet ==
    /\ fcall.fn = "route_get"
    /\ fret = None
    /\ fret' = RouteGet(fcall.exec)
    /\ UNCHANGED fcall
    /\ UNCHANGED <<driverVars, builderVars, codecVars, routeVars,
                   facadeVars, pairVars, kernelVars, liveVars>>

CallRouteList ==
    /\ fcall.fn = "route_list"
    /\ fret = None
    /\ fret' = RouteList(fcall.exec, fcall.index, fcall.filter_mask)
    /\ UNCHANGED fcall
    /\ UNCHANGED <<driverVars, builderVars, codecVars, routeVars,
                   facadeVars, pairVars, kernelVars, liveVars>>

InitList ==
    /\ DriverInit(U32(0), "release", "any")
    /\ BuilderIdle /\ CodecIdle /\ RouteIdle /\ WorldIdle
    /\ fcall \in ListCalls
    /\ fret = None

NextList ==
    \/ CallAddrList
    \/ CallRouteGet
    \/ CallRouteList

SpecList == InitList /\ [][NextList]_vars

---------------------------------------------------------------------------
(* Part 5: the claims about the list verbs.                                *)

\* a list verb has returned
ListReturned ==
    /\ fcall # None
    /\ fcall.fn \in {"addr_list", "route_get", "route_list"}
    /\ fret # None

\* what the verb's deserializer makes of the i-th payload execute returned
Decoded(i) ==
    IF fcall.fn = "addr_list" THEN AddrDeserialize(fcall.exec.val[i])
    ELSE RouteDeserialize(fcall.exec.val[i])

\* the i-th payload decodes, and to an entry the verb is asked for
Wanted(i) ==
    /\ Decoded(i).st = "ok"
    /\ fcall.fn = "addr_list" => Decoded(i).val.index = fcall.index
    /\ (fcall.fn = "route_list" /\ fcall.filter_mask = "Oif") =>
         Decoded(i).val.oif_index = fcall.index

WantedPositions == {i \in 1..Len(fcall.exec.val) : Wanted(i)}

\* the k-th smallest of a set of numbers
Nth(S, k) == CHOOSE i \in S : Cardinality({j \in S : j < i}) = k - 1

\* C21: what addr_list returns is the decoded replies whose index is the
\* target link's, in reply order, and what route_list returns is the decoded
\* replies whose oif_index is the index asked for under RtFilter::Oif, and
\* all of them under RtFilter::None; no entry of another index is returned
\* by addr_list or under Oif.
C21_ListsAreFilteredRepliesInOrder ==
    (ListReturned /\ fcall.fn \in {"addr_list", "route_list"} /\ fret.st = "ok") =>
        /\ Len(fret.val) = Cardinality(WantedPositions)
        /\ \A k \in 1..Len(fret.val) :
             /\ fret.val[k] = Decoded(Nth(WantedPositions, k)).val
             /\ fcall.fn = "addr_list" => fret.val[k].index = fcall.index
             /\ (fcall.fn = "route_list" /\ fcall.filter_mask = "Oif") =>
                  fret.val[k].oif_index = fcall.index

\* addr_list for link 1 was given an address of link 2 and then one of
\* link 1, and returned the second alone
C21_Witness ==
    /\ ListReturned
    /\ fcall.fn = "addr_list"
    /\ fcall.index = 1
    /\ fcall.exec.st = "ok"
    /\ Len(fcall.exec.val) = 2
    /\ Decoded(1).st = "ok"
    /\ Decoded(1).val.index = 2
    /\ fret.st = "ok"
    /\ Len(fret.val) = 1
    /\ fret.val[1].index = 1

\* C22: when a payload that execute collected fails to decode, addr_list,
\* route_get and route_list return an error, and no partial list.
C22_DecodeFailureIsAnError ==
    (ListReturned /\ fcall.exec.st = "ok"
       /\ \E i \in 1..Len(fcall.exec.val) : Decoded(i).st = "err") =>
        fret.st = "err"


---------------------------------------------------------------------------
(* No retry.                                                               *)

\* execute has returned an error to the verb: the send or the pid call
\* failed, the datagram came from another sender, or the kernel's reply was
\* an error
ExecuteFailed == pc = "ret" /\ ret.st = "err"

\* a request goes on the wire in this step
Sends == sent' # sent

\* the verb moves to a request in this step
TakesRequest == pc' = "call" /\ pc # "call"

\* C23: the library never retries. A request is put on the wire only by an
\* execute that the verb has just called, and the verb calls execute only
\* when it starts and when the execute before returned Ok, then for the next
\* request of its plan; when execute has returned an error the verb returns
\* that error, its remaining requests unsent.
C23_NeverRetries ==
    [][/\ Sends => pc = "call" /\ pc' # "call" /\ Len(sent') = Len(sent) + 1
       /\ TakesRequest =>
            \/ pc = "idle" /\ verb' \in Calls
            \/ pc = "ret" /\ ret.st = "ok" /\ verb'.plan = Tail(verb.plan)
       /\ ExecuteFailed =>
            pc' = "idle" /\ verbRet' = ret /\ ~Sends /\ nexec' = nexec]_vars

\* link_del of a link whose index is unknown has returned the error of its
\* link_get: the delete, its second request, was never sent
C23_Witness ==
    /\ pc = "idle"
    /\ verb.name = "link_del"
    /\ Len(verb.plan) = 2
    /\ verbRet.st = "err"
    /\ Len(sent) = 1
    /\ nexec = 1


---------------------------------------------------------------------------
(* Part 6: netlink.rs, the Netlink value and its map of handles.           *)

NETLINK_ROUTE == 0

SUPPORTED_PROTOCOLS == {NETLINK_ROUTE}

\* the descriptors socket() can return
FdRange == 3..(2 + MaxFds)

\* socket() returns the lowest descriptor that is not open
LowestFree(open) ==
    CHOOSE f \in FdRange \ open : \A g \in FdRange \ open : f <= g

\* what socket() and bind() may do
SocketSys == {"ok", "socket fails", "bind fails"}

\* SocketHandle::new and NetlinkSocket::new: socket(), then bind(); when bind
\* fails the socket just made is dropped, and drop closes it. seq starts at 0.
SocketHandleNew(open, sys) ==
    IF sys # "ok" \/ FdRange \ open = {}
    THEN Err([kind |-> "os"])
    ELSE Ok([seq |-> U32(0), fd |-> LowestFree(open)])

\* seq of a handle after n requests
RECURSIVE SeqAfter(_, _)
SeqAfter(s, n) == IF n = 0 THEN s ELSE SeqAfter(U32WrappingInc(s), n - 1)

\* an or_insert that puts the handle it is given in place of the entry
OrInsertReplaces(sockets, h) == [sockets |-> (NETLINK_ROUTE :> h), dropped |-> {}]

\* entry(NETLINK_ROUTE).or_insert(h): the entry that is there stays and h is
\* dropped; h is inserted when there is none
OrInsert(sockets, h) ==
    IF NETLINK_ROUTE \in DOMAIN sockets
    THEN [sockets |-> sockets, dropped |-> {h.fd}]
    ELSE [sockets |-> (NETLINK_ROUTE :> h), dropped |-> {}]

\* the public verbs of Netlink
FacadeVerbs ==
    {"link_get", "link_add", "link_modify", "link_del", "link_setup",
     "addr_list", "addr_add", "addr_replace", "addr_del", "route_get",
     "route_list", "route_add", "route_append", "route_replace", "route_del"}

\* requests a verb of the handle may send: none when its request cannot be
\* built, at most three (link_new with a master of a link of unknown index)
VerbRequests == 0..3

NoCalls == [fn |-> "none", n |-> 0]

\* Netlink::new: a handle for every supported protocol, or the first error
NetlinkNew ==
    /\ nl = None
    /\ fcall.n < MaxFacadeCalls
    /\ \E sys \in SocketSys :
         LET made == SocketHandleNew(fds, sys)
         IN /\ fcall' = [fn |-> "new", n |-> fcall.n + 1]
            /\ IF made.st = "ok"
               THEN /\ nl' = [sockets |->
                                [p \in SUPPORTED_PROTOCOLS |-> made.val]]
                    /\ fds' = fds \cup {made.val.fd}
                    /\ fret' = Ok(<<>>)
               ELSE /\ nl' = nl
                    /\ fds' = fds
                    /\ fret' = made
    /\ UNCHANGED <<driverVars, builderVars, codecVars, routeVars, pairVars,
                   kernelVars, liveVars>>

\* a verb of Netlink, lines 64-69 and the like: the argument of or_insert is
\* evaluated before or_insert is called, so SocketHandle::new runs and its ?
\* returns its error; or_insert then keeps or inserts; the verb of the
\* handle runs on the entry, which advances its seq by the requests it sends
NetlinkVerb ==
    /\ nl # None
    /\ fcall.n < MaxFacadeCalls
    /\ \E name \in FacadeVerbs, sys \in SocketSys, k \in VerbRequests,
          ok \in BOOLEAN :
         LET made == SocketHandleNew(fds, sys)
             had == NETLINK_ROUTE \in DOMAIN nl.sockets
         IN IF made.st # "ok"
            THEN /\ fcall' = [fn |-> name, n |-> fcall.n + 1, had |-> had,
                            made |-> None, ran |-> None]
                 /\ fret' = made
                 /\ UNCHANGED <<nl, fds>>
            ELSE LET e == OrInsert(nl.sockets, made.val)
                     h == e.sockets[NETLINK_ROUTE]
                 IN /\ nl' = [sockets |->
                               [e.sockets EXCEPT ![NETLINK_ROUTE].seq =
                                  SeqAfter(h.seq, k)]]
                    /\ fds' = (fds \cup {made.val.fd}) \ e.dropped
                    /\ fcall' = [fn |-> name, n |-> fcall.n + 1, had |-> had,
                              made |-> Some(made.val.fd),
                              ran |-> Some(h.fd)]
                    /\ fret' = IF ok THEN Ok(<<>>) ELSE Err([kind |-> "verb"])
    /\ UNCHANGED <<driverVars, builderVars, codecVars, routeVars, pairVars,
                   kernelVars, liveVars>>

\* sockets is a pub field: a caller may take the entry out of the map, which
\* drops the handle and closes its socket
SocketsRemove ==
    /\ nl # None
    /\ NETLINK_ROUTE \in DOMAIN nl.sockets
    /\ nl' = [sockets |-> <<>>]
    /\ fds' = fds \ {nl.sockets[NETLINK_ROUTE].fd}
    /\ UNCHANGED <<fcall, fret>>
    /\ UNCHANGED <<driverVars, builderVars, codecVars, routeVars, pairVars,
                   kernelVars, liveVars>>

\* a process that has no Netlink value yet; other sockets of its own may be
\* open
InitFacade ==
    /\ DriverInit(U32(0), "release", "any")
    /\ BuilderIdle /\ CodecIdle /\ RouteIdle
    /\ fcall = NoCalls
    /\ fret = None
    /\ nl = None
    /\ fds \in {{}, {3}}
    /\ hs = None
    /\ links = <<>>
    /\ live = None

NextFacade ==
    \/ NetlinkNew
    \/ NetlinkVerb
    \/ SocketsRemove

SpecFacade == InitFacade /\ [][NextFacade]_vars

\* Netlink::new has returned a Netlink value in this step
Constructed == fcall'.n # fcall.n /\ fcall'.fn = "new" /\ fret'.st = "ok"

\* a verb is called in this step on a Netlink value whose map has the entry
VerbOnEntry == fcall'.n # fcall.n /\ fcall'.fn \in FacadeVerbs /\ fcall'.had

\* the map has exactly the NETLINK_ROUTE entry after the step, and it is the
\* handle that was there before it, its seq not reset
EntryKept ==
    /\ DOMAIN nl'.sockets = {NETLINK_ROUTE}
    /\ nl'.sockets[NETLINK_ROUTE].fd = nl.sockets[NETLINK_ROUTE].fd
    /\ \E k \in VerbRequests :
         nl'.sockets[NETLINK_ROUTE].seq =
           SeqAfter(nl.sockets[NETLINK_ROUTE].seq, k)
    /\ fcall'.ran \in {None, Some(nl.sockets[NETLINK_ROUTE].fd)}

\* C25: Netlink::new leaves exactly one handle in the map, keyed
\* NETLINK_ROUTE; a verb called while the map has that entry leaves the map
\* with exactly that entry, runs on that handle (whose seq continues), and
\* makes no new handle and no new socket.
C25_OneHandleMadeOnlyWhenAbsent ==
    [][/\ Constructed => DOMAIN nl'.sockets = {NETLINK_ROUTE}
       /\ VerbOnEntry => EntryKept /\ fcall'.made = None]_vars


---------------------------------------------------------------------------
(* Part 7: two handles, each on a socket of its own, run execute in any    *)
(* interleaving.                                                           *)

Handles == {1, 2}

\* the port id the kernel gave each socket at bind: never the same for two
\* sockets that are open
PairPid(i) == IF i = 1 THEN SockPid ELSE OtherPid

\* the payload of the kernel's answer to a request of handle i
PairData(i) == <<i, 0, 0, 0>>

\* what a handle may find in a datagram: terminators and replies, single or
\* NLM_F_MULTI, with the seq of any request either handle has sent and
\* addressed to either socket
PairMsgs ==
    {Msg(t, f, U32(s), PairPid(j), d) :
        t \in {NLMSG_DONE}, f \in {0, NLM_F_MULTI}, s \in 1..MaxPairSends,
        j \in Handles, d \in {Data0, DataE}}
    \cup {Msg(RTM_NEWLINK, f, U32(s), PairPid(j), PairData(j)) :
            f \in {0, NLM_F_MULTI}, s \in 1..MaxPairSends, j \in Handles}

\* SocketHandle::new for each of the two
PairNew ==
    [i \in Handles |->
       [seq |-> U32(0), pc |-> "idle", req |-> HeaderNew(0, 0), res |-> <<>>,
        ret |-> NoRet, nsend |-> 0, nmsg |-> 0, to |-> 0]]

\* execute of handle i, lines 136-146: the next seq of this handle, send, pid
PairSend(i) ==
    /\ hs[i].pc = "idle"
    /\ hs[i].nsend < MaxPairSends
    /\ \E sys \in {"ok", "fails"} :
         LET s == U32WrappingInc(hs[i].seq) IN
         hs' = [hs EXCEPT ![i] =
                  [seq |-> s,
                   pc |-> IF sys = "ok" THEN "for" ELSE "idle",
                   req |-> [LinkGetOp.header EXCEPT !.nlmsg_seq = s],
                   res |-> <<>>,
                   ret |-> IF sys = "ok" THEN NoRet ELSE Err([kind |-> "os"]),
                   nsend |-> hs[i].nsend + 1,
                   nmsg |-> 0,
                   to |-> 0]]
    /\ UNCHANGED <<driverVars, builderVars, codecVars, routeVars, callVars,
                   facadeVars, kernelVars, liveVars>>

\* execute of handle i, lines 159-190: the next message of what its socket
\* received, tested against this handle's request and this socket's pid
PairMsg(i) ==
    /\ hs[i].pc = "for"
    /\ hs[i].nmsg < MaxPairMsgs
    /\ \E m \in PairMsgs :
         LET step == ExecMsg(m, hs[i].req, PairPid(i), 0, hs[i].res) IN
         hs' = [hs EXCEPT ![i].res = step.res,
                          ![i].ret = IF step.ctl = "continue" THEN NoRet
                                     ELSE ExecReturn(step),
                          ![i].pc = IF step.ctl = "continue" THEN "for"
                                    ELSE "idle",
                          ![i].nmsg = hs[i].nmsg + 1,
                          ![i].to = m.header.nlmsg_pid]
    /\ UNCHANGED <<driverVars, builderVars, codecVars, routeVars, callVars,
                   facadeVars, kernelVars, liveVars>>

InitPair ==
    /\ DriverInit(U32(0), "release", "any")
    /\ BuilderIdle /\ CodecIdle /\ RouteIdle /\ CallIdle
    /\ nl = None
    /\ fds = {}
    /\ hs = PairNew
    /\ links = <<>>
    /\ live = None

NextPair ==
    \/ \E i \in Handles : PairSend(i)
    \/ \E i \in Handles : PairMsg(i)

SpecPair == InitPair /\ [][NextPair]_vars

\* every payload handle i has collected or returned was addressed to its pid
OwnPayloads(h, i) ==
    /\ \A k \in 1..Len(h.res) : h.res[k] = PairData(i)
    /\ h.ret.st = "ok" => \A k \in 1..Len(h.ret.val) : h.ret.val[k] = PairData(i)

\* handle i has in this step examined a message addressed to another pid
ReadForeign(i) == hs'[i].nmsg = hs[i].nmsg + 1 /\ hs'[i].to # PairPid(i)

\* C26: with two handles of distinct pids running transactions in any
\* interleaving, their sequence numbers equal or not, no payload of a message
\* addressed to one pid is in what the other handle collects or returns,
\* and a message addressed to one pid leaves the other handle's transaction
\* as it was: not ended, its result unchanged.
C26_HandlesDoNotShareReplies ==
    [][\A i \in Handles :
         /\ OwnPayloads(hs'[i], i)
         /\ ReadForeign(i) =>
              /\ hs'[i].pc = "for"
              /\ hs'[i].res = hs[i].res
              /\ hs'[i].ret = NoRet]_vars

\* both handles are in a transaction with the same seq; handle 1 holds a
\* payload of its own and has just examined a message addressed to handle 2
C26_Witness ==
    /\ hs[1].pc = "for" /\ hs[2].pc = "for"
    /\ hs[1].seq = hs[2].seq
    /\ hs[1].to = PairPid(2)
    /\ Len(hs[1].res) = 1
    /\ hs[2].nmsg > 0


---------------------------------------------------------------------------
(* Part 8: the link verbs against a kernel that keeps its links by index   *)
(* and by unique name.                                                     *)

LinkNames == {"foo", "bar"}

Ifindexes == 1..MaxLinks

\* the LinkAttrs a caller passes: index 0 when it does not know the index
LinkAttrsSet ==
    [index : {0} \cup Ifindexes, name : LinkNames, master_index : {0, 1}]

\* link::link_get without the name
LinkGetReqIndexOnly(a) ==
    [type |-> RTM_GETLINK, flags |-> NLM_F_ACK, index |-> a.index,
     name |-> None, master |-> None]

\* link::link_new: RTM_NEWLINK, InfoMessage{index: attrs.index}, IFLA_IFNAME
LinkNewReq(a, flags) ==
    [type |-> RTM_NEWLINK, flags |-> flags, index |-> a.index,
     name |-> Some(a.name), master |-> None]

\* link::link_set_master: RTM_NEWLINK carrying only IFLA_MASTER
LinkSetMasterReq(index, master_index) ==
    [type |-> RTM_NEWLINK, flags |-> NLM_F_ACK, index |-> index,
     name |-> None, master |-> Some(master_index)]

\* link::link_del: RTM_DELLINK, only index non-zero
LinkDelReq(index) ==
    [type |-> RTM_DELLINK, flags |-> NLM_F_ACK, index |-> index,
     name |-> None, master |-> None]

\* link::link_get: RTM_GETLINK, InfoMessage{index: attrs.index} and, when the
\* index is 0, IFLA_IFNAME = attrs.name
LinkGetReq(a) ==
    [type |-> RTM_GETLINK, flags |-> NLM_F_ACK, index |-> a.index,
     name |-> IF a.index = 0 THEN Some(a.name) ELSE None, master |-> None]

\* link::link_deserialize: the attrs of the link a reply describes
LinkDeserialize(payload) ==
    [index |-> payload.index, name |-> payload.name,
     master_index |-> payload.master]

\* the kernel finds the link a request names: by ifi_index when that is not
\* 0, by IFLA_IFNAME otherwise
KernelFind(tbl, rq) ==
    IF rq.index # 0
    THEN IF rq.index \in DOMAIN tbl THEN Some(rq.index) ELSE None
    ELSE IF rq.name = None THEN None
    ELSE LET named == {i \in DOMAIN tbl : tbl[i].name = rq.name.some}
         IN IF named = {} THEN None ELSE Some(CHOOSE i \in named : TRUE)

KernelErr(errno) == Err([kind |-> "netlink", errno |-> errno])

\* the name is in use by a link other than i
NameTaken(tbl, name, i) == \E j \in DOMAIN tbl : j # i /\ tbl[j].name = name

\* tbl with the link i added or changed
WithLink(tbl, i, link) ==
    [j \in DOMAIN tbl \cup {i} |-> IF j = i THEN link ELSE tbl[j]]

\* RTM_NEWLINK on a link that exists: NLM_F_EXCL refuses; a new name must be
\* free; a master must exist
KernelSetLink(tbl, rq, i) ==
    IF BitAnd(rq.flags, NLM_F_EXCL) # 0 THEN [links |-> tbl, ret |-> KernelErr("EEXIST")]
    ELSE IF rq.name # None /\ NameTaken(tbl, rq.name.some, i)
    THEN [links |-> tbl, ret |-> KernelErr("EEXIST")]
    ELSE IF rq.master # None /\ rq.master.some \notin DOMAIN tbl \cup {0}
    THEN [links |-> tbl, ret |-> KernelErr("EINVAL")]
    ELSE [links |->
            WithLink(tbl, i,
              [name |-> IF rq.name # None THEN rq.name.some ELSE tbl[i].name,
               master |-> IF rq.master # None THEN rq.master.some
                          ELSE tbl[i].master]),
          ret |-> Ok(<<>>)]

\* RTM_NEWLINK for a link that does not exist: created under NLM_F_CREATE,
\* with the index asked for or the one the kernel picks (fresh)
KernelCreateLink(tbl, rq, fresh) ==
    IF BitAnd(rq.flags, NLM_F_CREATE) = 0 THEN [links |-> tbl, ret |-> KernelErr("ENODEV")]
    ELSE IF rq.name = None THEN [links |-> tbl, ret |-> KernelErr("EINVAL")]
    ELSE IF NameTaken(tbl, rq.name.some, 0)
    THEN [links |-> tbl, ret |-> KernelErr("EEXIST")]
    ELSE [links |->
            WithLink(tbl, IF rq.index # 0 THEN rq.index ELSE fresh,
                     [name |-> rq.name.some, master |-> 0]),
          ret |-> Ok(<<>>)]

\* RTM_DELLINK: the link goes, and no link keeps it as its master
KernelDelLink(tbl, i) ==
    [links |-> [j \in DOMAIN tbl \ {i} |->
                  [tbl[j] EXCEPT !.master = IF @ = i THEN 0 ELSE @]],
     ret |-> Ok(<<>>)]

\* the kernel handles one request, and execute returns what it answered:
\* the payloads of its replies, or its error
KernelLink(tbl, rq, fresh) ==
    LET dev == KernelFind(tbl, rq) IN
    CASE rq.type = RTM_NEWLINK ->
           IF dev # None THEN KernelSetLink(tbl, rq, dev.some)
           ELSE KernelCreateLink(tbl, rq, fresh)
      [] rq.type = RTM_DELLINK ->
           IF dev # None THEN KernelDelLink(tbl, dev.some)
           ELSE [links |-> tbl, ret |-> KernelErr("ENODEV")]
      [] rq.type = RTM_GETLINK ->
           IF dev # None
           THEN [links |-> tbl,
                 ret |-> Ok(<<[index |-> dev.some, name |-> tbl[dev.some].name,
                               master |-> tbl[dev.some].master]>>)]
           ELSE [links |-> tbl,
                 ret |-> KernelErr(IF rq.index = 0 /\ rq.name = None
                                   THEN "EINVAL" ELSE "ENODEV")]

\* SocketHandle::link_get
LinkGet(tbl, a) ==
    LET r == KernelLink(tbl, LinkGetReq(a), 0) IN
    IF r.ret.st # "ok" THEN r.ret
    ELSE IF LinkGetResult(r.ret.val).st # "ok" THEN LinkGetResult(r.ret.val)
    ELSE Ok(LinkDeserialize(r.ret.val[1]))

\* SocketHandle::ensure_index
EnsureIndexOf(tbl, a) ==
    IF a.index = 0
    THEN LET l == LinkGet(tbl, a)
         IN IF l.st = "ok" THEN Ok(l.val.index) ELSE l
    ELSE Ok(a.index)

\* SocketHandle::link_new: the create or change, and the master when
\* attrs.master_index is not 0
LinkNew(tbl, a, flags, fresh) ==
    LET r == KernelLink(tbl, LinkNewReq(a, flags), fresh) IN
    IF r.ret.st # "ok" \/ a.master_index = 0 THEN r
    ELSE LET index == EnsureIndexOf(r.links, a) IN
         IF index.st # "ok" THEN [links |-> r.links, ret |-> index]
         ELSE KernelLink(r.links,
                         LinkSetMasterReq(index.val, a.master_index), fresh)

\* SocketHandle::link_del
LinkDel(tbl, a) ==
    LET index == EnsureIndexOf(tbl, a) IN
    IF index.st # "ok" THEN [links |-> tbl, ret |-> index]
    ELSE KernelLink(tbl, LinkDelReq(index.val), 0)

\* the indexes the kernel may give a new link (0: it has none left)
FreshIndexes == IF Ifindexes \ DOMAIN links = {} THEN {0}
                ELSE Ifindexes \ DOMAIN links

\* the record of a call: the verb, its attrs, and the links before it
LinkCall(fn, a) ==
    [fn |-> fn, attrs |-> a, before |-> links, n |-> fcall.n + 1]

\* Netlink::link_add: link_new with NLM_F_CREATE | NLM_F_EXCL | NLM_F_ACK
CallLinkAdd ==
    /\ fcall.n < MaxLinkCalls
    /\ \E a \in LinkAttrsSet, fresh \in FreshIndexes :
         /\ fresh # 0 \/ a.index # 0 \/ NameTaken(links, a.name, 0)
         /\ LET r == LinkNew(links, a, AddFlags, fresh)
            IN /\ links' = r.links
               /\ fcall' = LinkCall("link_add", a)
               /\ fret' = r.ret
    /\ UNCHANGED <<driverVars, builderVars, codecVars, routeVars, facadeVars,
                   pairVars, liveVars>>

\* Netlink::link_modify: link_new with NLM_F_ACK
CallLinkModify ==
    /\ fcall.n < MaxLinkCalls
    /\ \E a \in LinkAttrsSet :
         LET r == LinkNew(links, a, NLM_F_ACK, 0)
         IN /\ links' = r.links
            /\ fcall' = LinkCall("link_modify", a)
            /\ fret' = r.ret
    /\ UNCHANGED <<driverVars, builderVars, codecVars, routeVars, facadeVars,
                   pairVars, liveVars>>

\* Netlink::link_del
CallLinkDel ==
    /\ fcall.n < MaxLinkCalls
    /\ \E a \in LinkAttrsSet :
         LET r == LinkDel(links, a)
         IN /\ links' = r.links
            /\ fcall' = LinkCall("link_del", a)
            /\ fret' = r.ret
    /\ UNCHANGED <<driverVars, builderVars, codecVars, routeVars, facadeVars,
                   pairVars, liveVars>>

\* Netlink::link_get
CallLinkGet ==
    /\ fcall.n < MaxLinkCalls
    /\ \E a \in LinkAttrsSet :
         /\ fcall' = LinkCall("link_get", a)
         /\ fret' = LinkGet(links, a)
    /\ UNCHANGED links
    /\ UNCHANGED <<driverVars, builderVars, codecVars, routeVars, facadeVars,
                   pairVars, liveVars>>

\* a fresh network namespace: no link of these names, no call made
InitLinks ==
    /\ DriverInit(U32(0), "release", "rtnetlink")
    /\ BuilderIdle /\ CodecIdle /\ RouteIdle
    /\ fcall = NoCalls
    /\ fret = None
    /\ nl = None
    /\ fds = {}
    /\ hs = None
    /\ links = <<>>
    /\ live = None

NextLinks ==
    \/ CallLinkAdd
    \/ CallLinkModify
    \/ CallLinkDel
    \/ CallLinkGet

SpecLinks == InitLinks /\ [][NextLinks]_vars

\* the latest call was fn and it returned Ok
Succeeded(fn) == fcall.fn = fn /\ fret.st = "ok"

\* link_get by name alone
ByName(name) == [index |-> 0, name |-> name, master_index |-> 0]

\* C29: against a kernel that keeps links by unique name, once link_add of a
\* link named N has succeeded, link_get by name N returns a link named N;
\* once link_modify to the name M has succeeded, link_get by name M returns a
\* link named M, and so does link_get with the attrs just passed; once
\* link_del has succeeded, link_get with the same attrs returns an error.
C29_LinkLifecycle ==
    /\ Succeeded("link_add") =>
         LET l == LinkGet(links, ByName(fcall.attrs.name))
         IN l.st = "ok" /\ l.val.name = fcall.attrs.name
    /\ Succeeded("link_modify") =>
         /\ LET l == LinkGet(links, ByName(fcall.attrs.name))
            IN l.st = "ok" /\ l.val.name = fcall.attrs.name
         /\ LET l == LinkGet(links, fcall.attrs)
            IN l.st = "ok" /\ l.val.name = fcall.attrs.name
    /\ Succeeded("link_del") =>
         LinkGet(links, fcall.attrs).st = "err"

\* link_modify has renamed a link: the link its attrs gave by index was
\* there under another name before the call
C29_Witness ==
    /\ Succeeded("link_modify")
    /\ fcall.attrs.index \in DOMAIN fcall.before
    /\ fcall.before[fcall.attrs.index].name = "foo"
    /\ links[fcall.attrs.index].name = "bar"
    /\ fcall.n = 3


---------------------------------------------------------------------------
(* What the loop collects.                                                 *)

\* m is for this request, is no terminator, and is of the type asked for
Accepted(m) ==
    /\ Matches(m, LoopReq, SockPid)
    /\ ~IsTerminator(m)
    /\ fcall.rt = 0 \/ m.header.nlmsg_type = fcall.rt

\* m is for this request and is an NLMSG_DONE or NLMSG_ERROR
MatchingTerminator(m) == Matches(m, LoopReq, SockPid) /\ IsTerminator(m)

RECURSIVE PayloadsOf(_, _)
\* the payloads of the accepted messages among the first n of the datagram,
\* in the order of the datagram
PayloadsOf(msgs, n) ==
    IF n = 0 THEN <<>>
    ELSE IF Accepted(msgs[n]) THEN Append(PayloadsOf(msgs, n - 1), msgs[n].data)
    ELSE PayloadsOf(msgs, n - 1)

\* C31: the loop's res holds the payloads of the messages it examined that
\* carry the request's (seq, pid), are not NLMSG_DONE or NLMSG_ERROR and,
\* when res_type is not 0, are of type res_type: no payload of another type
\* with a res_type, every such payload without one; and a matching
\* NLMSG_DONE or NLMSG_ERROR ends the loop with a res_type as without.
C31_ResHoldsTheAcceptedPayloads ==
    ForReturned =>
        /\ fret.res = PayloadsOf(fcall.msgs, fret.taken)
        /\ Positions(MatchingTerminator) # {} =>
             /\ fret.ctl \in {"done", "bail"}
             /\ fret.taken <= Least(Positions(MatchingTerminator))

\* with res_type RTM_NEWADDR a matching RTM_NEWLINK was dropped and the
\* RTM_NEWADDR after it was taken
C31_Witness ==
    /\ ForReturned
    /\ fcall.rt = RTM_NEWADDR
    /\ Len(fcall.msgs) = 2
    /\ Matches(fcall.msgs[1], LoopReq, SockPid)
    /\ fcall.msgs[1].header.nlmsg_type = RTM_NEWLINK
    /\ Accepted(fcall.msgs[2])
    /\ fcall.msgs[1].data # fcall.msgs[2].data
    /\ fret.res = <<fcall.msgs[2].data>>


\* m is for this request and no terminator, is dropped because res_type asks
\* for another type, and has no NLM_F_MULTI
DroppedSingle(m) ==
    /\ Matches(m, LoopReq, SockPid)
    /\ ~IsTerminator(m)
    /\ fcall.rt # 0 /\ m.header.nlmsg_type # fcall.rt
    /\ IsSingle(m)

\* C32: a message for this request that is dropped because its type is not
\* res_type never ends the loop, although it has no NLM_F_MULTI: the loop
\* goes on to the next message, and when it was the last of the datagram the
\* outer loop calls recv again.
C32_DroppedSingleDoesNotEnd ==
    ForReturned =>
        \A p \in Positions(DroppedSingle) :
            fret.taken = p => fret.ctl = "continue" /\ p = Len(fcall.msgs)

\* the datagram of an address dump holds only a single RTM_NEWLINK for this
\* request: the loop dropped it and left the transaction open
C32_Witness ==
    /\ ForReturned
    /\ fcall.rt = RTM_NEWADDR
    /\ Len(fcall.msgs) = 1
    /\ DroppedSingle(fcall.msgs[1])
    /\ fret.ctl = "continue"
    /\ fret.res = <<>>


---------------------------------------------------------------------------
(* The single-shot reply.                                                  *)

\* the for-loop appends in this step the payload of a message that has no
\* NLM_F_MULTI
AppendsSingle ==
    /\ pc = "for"
    /\ Len(res') = Len(res) + 1
    /\ ~HasMulti(last')

\* C33: when execute has appended the payload of a message without
\* NLM_F_MULTI it returns at once, with res as it then is: exactly that
\* payload when it is the first one accepted; and once execute has returned,
\* no message read later adds to what it returned.
C33_SingleReplyReturnsAtOnce ==
    [][/\ AppendsSingle =>
            /\ pc' = "ret"
            /\ ret' = Ok(res')
            /\ res' = Append(res, last'.data)
            /\ res = <<>> => ret'.val = <<last'.data>>
       /\ pc = "ret" => ret' = ret /\ res' = <<>> /\ nmsg' = 0]_vars

\* execute has returned one payload, that of a single-shot reply that came
\* after a message it had skipped
C33_Witness ==
    /\ pc = "ret"
    /\ ret.st = "ok"
    /\ nmsg = 2
    /\ last # NoMsg
    /\ ~HasMulti(last) /\ ~IsTerminator(last)
    /\ ret.val = <<last.data>>


---------------------------------------------------------------------------
(* Part 9: execute at its receive loop, on a socket whose queue the kernel *)
(* fills. recv blocks while the queue is empty: the socket has no timeout. *)

\* what the kernel may queue while the request LoopReq is open: a late reply
\* to the request before it, the end of a dump, an error, and replies of two
\* types, single or NLM_F_MULTI
LiveMsgs ==
    {Msg(RTM_NEWADDR, 0, U32(1), SockPid, Data0),
     Msg(NLMSG_DONE, NLM_F_MULTI, U32(2), SockPid, Data0),
     Msg(NLMSG_ERROR, 0, U32(2), SockPid, DataE)}
    \cup {Msg(t, f, U32(2), SockPid, Data0) :
            t \in {RTM_NEWADDR, RTM_NEWLINK}, f \in {0, NLM_F_MULTI}}

\* execute has sent LoopReq and read the socket's pid, lines 136-146
LiveStart(rt) ==
    [pc |-> "recv", rt |-> rt, queue |-> <<>>, cur |-> <<>>, res |-> <<>>,
     ret |-> NoRet, nin |-> 0]

\* the kernel queues a message: in a datagram of its own, or at the end of
\* the datagram it queued last if recv has not taken that one
KernelDeliver ==
    /\ live.pc # "ret"
    /\ live.nin < MaxLiveMsgs
    /\ \E m \in LiveMsgs :
         \/ live' = [live EXCEPT !.queue = Append(@, <<m>>), !.nin = @ + 1]
         \/ /\ live.queue # <<>>
            /\ live' = [live EXCEPT !.queue[Len(live.queue)] = Append(@, m),
                                    !.nin = @ + 1]
    /\ UNCHANGED <<driverVars, builderVars, codecVars, routeVars, callVars,
                   facadeVars, pairVars, kernelVars>>

\* execute, line 149, and socket.rs lines 51-69: recvfrom returns the datagram
\* at the head of the queue, sent by the kernel; it does not return while the
\* queue is empty
LiveRecv ==
    /\ live.pc = "recv"
    /\ live.queue # <<>>
    /\ live' = [live EXCEPT !.cur = Head(live.queue),
                            !.queue = Tail(live.queue),
                            !.pc = "for"]
    /\ UNCHANGED <<driverVars, builderVars, codecVars, routeVars, callVars,
                   facadeVars, pairVars, kernelVars>>

\* socket.rs lines 64-66: recvfrom fails, and ? returns the error
LiveRecvFails ==
    /\ live.pc = "recv"
    /\ live' = [live EXCEPT !.ret = Err([kind |-> "os"]), !.pc = "ret"]
    /\ UNCHANGED <<driverVars, builderVars, codecVars, routeVars, callVars,
                   facadeVars, pairVars, kernelVars>>

\* execute, lines 159-190: the for-loop takes the next message of the datagram
LiveMsg ==
    /\ live.pc = "for"
    /\ live.cur # <<>>
    /\ LET step == ExecMsg(Head(live.cur), LoopReq, SockPid, live.rt, live.res)
       IN live' = [live EXCEPT
                     !.cur = Tail(live.cur),
                     !.res = step.res,
                     !.ret = IF step.ctl = "continue" THEN NoRet
                             ELSE ExecReturn(step),
                     !.pc = IF step.ctl = "continue" THEN "for" ELSE "ret"]
    /\ UNCHANGED <<driverVars, builderVars, codecVars, routeVars, callVars,
                   facadeVars, pairVars, kernelVars>>

\* execute, line 190 back to 149: the datagram is used up
LiveDatagramEnd ==
    /\ live.pc = "for"
    /\ live.cur = <<>>
    /\ live' = [live EXCEPT !.pc = "recv"]
    /\ UNCHANGED <<driverVars, builderVars, codecVars, routeVars, callVars,
                   facadeVars, pairVars, kernelVars>>

InitLive ==
    /\ DriverInit(U32(0), "release", "rtnetlink")
    /\ BuilderIdle /\ CodecIdle /\ RouteIdle /\ CallIdle
    /\ nl = None
    /\ fds = {}
    /\ hs = None
    /\ links = <<>>
    /\ live \in {LiveStart(rt) : rt \in {0, RTM_NEWADDR}}

NextLive ==
    \/ KernelDeliver
    \/ LiveRecv
    \/ LiveRecvFails
    \/ LiveMsg
    \/ LiveDatagramEnd

\* the thread of execute runs whenever it can: recv returns when a datagram
\* is queued, and the loop goes on. The kernel owes nothing, and a recv that
\* can fail need not
SpecLive ==
    /\ InitLive
    /\ [][NextLive]_vars
    /\ WF_vars(LiveRecv) /\ WF_vars(LiveMsg) /\ WF_vars(LiveDatagramEnd)

\* m ends the transaction of LoopReq: it is for this request and is an
\* NLMSG_DONE or NLMSG_ERROR, or is accepted and has no NLM_F_MULTI
LiveStopper(m) ==
    /\ Matches(m, LoopReq, SockPid)
    /\ \/ IsTerminator(m)
       \/ /\ live.rt = 0 \/ m.header.nlmsg_type = live.rt
          /\ ~HasMulti(m)

\* execute is running, and a message that ends the transaction is in the
\* datagram it is reading or in the queue
StopperDelivered ==
    /\ live.pc # "ret"
    /\ \/ \E i \in 1..Len(live.cur) : LiveStopper(live.cur[i])
       \/ \E d \in 1..Len(live.queue) :
            \E i \in 1..Len(live.queue[d]) : LiveStopper(live.queue[d][i])

\* C34: with every datagram sent by the kernel, once the kernel has
\* delivered a message for this request that is an NLMSG_DONE, an
\* NLMSG_ERROR or an accepted message without NLM_F_MULTI, execute returns;
\* and execute returns only when it examines such a message or when recv
\* itself fails: nothing else, and no timeout, ends it.
C34_ReturnsWhenAStopperArrives ==
    /\ StopperDelivered ~> live.pc = "ret"
    /\ [][live.pc # "ret" /\ live'.pc = "ret" =>
            \/ /\ live.pc = "for" /\ live.cur # <<>>
               /\ LiveStopper(Head(live.cur))
            \/ /\ live.pc = "recv"
               /\ live'.ret = Err([kind |-> "os"])]_vars

\* execute has examined every message the kernel queued, none of which ends
\* the transaction, and is back in recv on an empty queue
C34_Witness ==
    /\ live # None
    /\ live.pc = "recv"
    /\ live.queue = <<>>
    /\ live.nin = MaxLiveMsgs
    /\ Len(live.res) = 2

---------------------------------------------------------------------------
(* Part 10: NetlinkMessage::from on buffers made of whole messages         *)
(* (src/src/message.rs).                                                   *)

\* the bodies of the well-formed messages: empty, one byte, a multiple of
\* NLMSG_ALIGNTO, and one byte more than that
FrameBodies == { <<>>, <<7>>, <<1, 2, 3, 4>>, <<1, 2, 3, 4, 5>> }

\* a well-formed message: nlmsg_len is NLMSG_HDRLEN plus the body's length
WellFormedMsgs == [ type : {NLMSG_ERROR}, flags : {NLM_F_MULTI}, body : FrameBodies ]

\* the zero bytes that follow a message up to a multiple of NLMSG_ALIGNTO
Padding(n) == [ i \in 1..(AlignOf(n, NLMSG_ALIGNTO) - n) |-> 0 ]

\* one message on the wire with its padding
PaddedFrame(m, e) ==
    FrameBytes(U32(NLMSG_HDRLEN + Len(m.body)), m.type, m.flags, m.body, e)
      \o Padding(NLMSG_HDRLEN + Len(m.body))

RECURSIVE ConcatFrames(_, _)
ConcatFrames(ms, e) ==
    IF ms = <<>> THEN <<>> ELSE PaddedFrame(Head(ms), e) \o ConcatFrames(Tail(ms), e)

FrameLists == UNION { [1..k -> WellFormedMsgs] : k \in 0..MaxFrames }

\* what is left after the last message: nothing, one byte, or one byte
\* less than a header
Leftovers == { <<>>, <<9>>, [ i \in 1..(NLMSG_HDRLEN - 1) |-> 255 ] }

WellFormedBufs(e) == { ConcatFrames(ms, e) \o t : ms \in FrameLists, t \in Leftovers }

InitFramed ==
    /\ DriverInit(U32(0), "release", "any")
    /\ nreq = None
    /\ out = None
    /\ nadd = 0
    /\ endian \in {"little", "big"}
    /\ attrs = <<>>
    /\ wire = None
    /\ nbuild = 0
    /\ rbuf \in WellFormedBufs(endian)
    /\ parsed = None
    /\ RouteIdle /\ CallIdle /\ WorldIdle

SpecFramed == InitFramed /\ [][NextFrame]_vars

\* the (header, payload) pair of a well-formed message
FramePair(m) ==
    [header |-> [nlmsg_len |-> U32(NLMSG_HDRLEN + Len(m.body)),
                 nlmsg_type |-> m.type,
                 nlmsg_flags |-> m.flags,
                 nlmsg_seq |-> U32(1),
                 nlmsg_pid |-> U32(SockPid)],
     data |-> m.body]

\* C35: on a buffer that is k well-formed messages, each padded to a
\* multiple of 4, followed by fewer than 16 bytes, NetlinkMessage::from
\* returns Ok with exactly the k (header, payload) pairs in order, the
\* payload being bytes [16, nlmsg_len) of its message
C35_WholeMessagesAreFramed ==
    parsed # None /\ parsed.fn = "message_from" =>
        \A ms \in FrameLists : \A t \in Leftovers :
            rbuf = ConcatFrames(ms, endian) \o t =>
                parsed.ret = Ok([ i \in 1..Len(ms) |-> FramePair(ms[i]) ])

\* two messages, the first with a body of one byte and three bytes of
\* padding, then fifteen bytes that are not a message
C35_Witness ==
    /\ parsed # None /\ parsed.fn = "message_from"
    /\ parsed.ret.st = "ok"
    /\ Len(parsed.ret.val) = 2
    /\ parsed.ret.val[1].data = <<7>>
    /\ parsed.ret.val[2].data = <<1, 2, 3, 4, 5>>
    /\ Len(rbuf) = 20 + 24 + 15

---------------------------------------------------------------------------
(* Requests of route_handle: type, flags and payloads.                     *)

\* the flag bits of a header's nlmsg_flags, as the set of the flags set
FlagSet(flags) ==
    { f \in {NLM_F_REQUEST, NLM_F_MULTI, NLM_F_ACK, 8, 16, 32, 64, 128,
             NLM_F_REPLACE, NLM_F_EXCL, NLM_F_CREATE, NLM_F_APPEND,
             4096, 8192, 16384, 32768} : BitAnd(flags, f) = f }

\* C36: the request route_handle builds has the type and flags of its
\* command: Add RTM_NEWROUTE with CREATE|EXCL|ACK, Append RTM_NEWROUTE with
\* CREATE|APPEND|ACK, Replace RTM_NEWROUTE with CREATE|REPLACE|ACK, Del
\* RTM_DELROUTE with ACK, Show RTM_GETROUTE with DUMP (ROOT|MATCH, the bits of
\* REPLACE and EXCL); and NLM_F_REQUEST is set besides them, in the request
\* that is built and in the one that execute sends
C36_CommandTypeAndFlags ==
    /\ rtreq # None /\ rtreq.st = "ok" =>
         LET h == rtreq.val.header
             want == CASE rcall.cmd = "Add" ->
                            <<24, {NLM_F_CREATE, NLM_F_EXCL, NLM_F_ACK}>>
                       [] rcall.cmd = "Append" ->
                            <<24, {NLM_F_CREATE, NLM_F_APPEND, NLM_F_ACK}>>
                       [] rcall.cmd = "Replace" ->
                            <<24, {NLM_F_CREATE, NLM_F_REPLACE, NLM_F_ACK}>>
                       [] rcall.cmd = "Del" -> <<25, {NLM_F_ACK}>>
                       [] rcall.cmd = "Show" -> <<26, {256, 512}>>
         IN /\ h.nlmsg_type = want[1]
            /\ FlagSet(h.nlmsg_flags) = want[2] \cup {NLM_F_REQUEST}
    /\ NLM_F_REQUEST \in FlagSet(req.nlmsg_flags)
    /\ pc = "recv" /\ rtreq # None /\ rtreq.st = "ok" =>
         /\ req.nlmsg_type = rtreq.val.header.nlmsg_type
         /\ req.nlmsg_flags = rtreq.val.header.nlmsg_flags

\* an Add has been built and handed to execute
C36_Witness ==
    /\ rtreq # None /\ rtreq.st = "ok"
    /\ rcall.cmd = "Add"
    /\ rtreq.val.header.nlmsg_flags = 1024 + 512 + 4 + 1
    /\ pc = "recv"
    /\ req.nlmsg_type = 24
    /\ req.nlmsg_flags = rtreq.val.header.nlmsg_flags

\* the rta_type of each attribute of a request, in the order of its payloads
\* after the first
AttrTypes(data) == [ i \in 1..(Len(data) - 1) |-> data[i + 1].rt_attr.rta_type ]

---------------------------------------------------------------------------
(* Part 11: address requests, addr::addr_handle (src/src/addr.rs).         *)

IFA_LOCAL == 2
IFA_LABEL == 3
IFA_BROADCAST == 4

\* utils::zero_terminated: the bytes of the string and a 0
ZeroTerminated(s) == Append(s, 0)

\* Ipv4Addr::to_ipv6_mapped: ::ffff:a.b.c.d
ToIpv6Mapped(ip) ==
    IpAddrV6([i \in 1..8 |-> CASE i = 6 -> LimbMod - 1
                               [] i = 7 -> ip.bits[1]
                               [] i = 8 -> ip.bits[2]
                               [] OTHER -> 0])

\* Ipv6Addr::to_ipv4: Some for ::a.b.c.d and ::ffff:a.b.c.d, None for the rest
ToIpv4(ip) ==
    IF (\A i \in 1..5 : ip.segments[i] = 0) /\ ip.segments[6] \in {0, LimbMod - 1}
    THEN Some(IpAddrV4(ip.segments[7], ip.segments[8]))
    ELSE None

\* Ipv4Net::broadcast: the address with every host bit set
NetBroadcast(net) ==
    LET host == 32 - net.prefix_len
        h2 == IF host > 16 THEN 16 ELSE host
        h1 == host - h2
    IN IpAddrV4(BitOr(net.addr.bits[1], 2 ^ h1 - 1),
                BitOr(net.addr.bits[2], 2 ^ h2 - 1))

FamilyOf(ip) == IF ip.v = "V4" THEN AF_INET ELSE AF_INET6

\* addr::addr_handle. The request of the command; the octets of the address;
\* the octets for IFA_ADDRESS: a peer of the other family is mapped (IPv4 to
\* its IPv4-mapped IPv6 address, IPv6 through to_ipv4, with no octets when
\* to_ipv4 has none), a peer of the same family is taken as it is, no peer
\* gives the address itself; the AddressMessage, IFA_LOCAL and IFA_ADDRESS
\* are added; for AF_INET, IFA_BROADCAST (the caller's or the net's) and,
\* when the label is not empty, IFA_LABEL follow.
AddrHandle(cmd, index, addr) ==
    LET hd == AddrOp(cmd).header
        req0 == RequestNew(hd.nlmsg_type, hd.nlmsg_flags)
        family == FamilyOf(addr.address.addr)
        local_addr_data == Octets(addr.address.addr)
        peer_addr_data ==
            IF addr.peer = None THEN local_addr_data
            ELSE LET ip == addr.peer.some.addr
                 IN CASE ip.v = "V4" /\ family = AF_INET6 -> Octets(ToIpv6Mapped(ip))
                      [] ip.v = "V6" /\ family = AF_INET ->
                           IF ToIpv4(ip) # None THEN Octets(ToIpv4(ip).some) ELSE <<>>
                      [] OTHER -> Octets(ip)
        msg == [AddressMessage(family, addr.address.prefix_len, index)
                  EXCEPT !.flags = addr.flags, !.scope = addr.scope]
        req3 == RequestAddData(
                  RequestAddData(RequestAddData(req0, msg),
                                 NetlinkRouteAttrNew(IFA_LOCAL, local_addr_data)),
                  NetlinkRouteAttrNew(IFA_ADDRESS, peer_addr_data))
        broadcast == IF addr.broadcast # None THEN Octets(addr.broadcast.some)
                     ELSE Octets(NetBroadcast(addr.address))
        req4 == RequestAddData(req3, NetlinkRouteAttrNew(IFA_BROADCAST, broadcast))
    IN Ok(IF family # AF_INET THEN req3
          ELSE IF addr.label = <<>> THEN req4
          ELSE RequestAddData(req4,
                              NetlinkRouteAttrNew(IFA_LABEL, ZeroTerminated(addr.label))))

\* the addresses callers pass: an IPv4 and an IPv6 net; a peer that is absent,
\* IPv4, an IPv4-mapped IPv6 address, or an IPv6 address that is no IPv4
\* one; a broadcast that is absent or given in either family; a label that is
\* empty or "eth0"
AddrNets ==
    { [addr |-> IpAddrV4(10 * 256, 1), prefix_len |-> 24],
      [addr |-> IpAddrV6([i \in 1..8 |-> IF i = 1 THEN 64768
                                         ELSE IF i = 8 THEN 1 ELSE 0]),
       prefix_len |-> 64] }

AddrPeers ==
    { [addr |-> IpAddrV4(10 * 256, 2), prefix_len |-> 32],
      [addr |-> IpAddrV6([i \in 1..8 |-> CASE i = 6 -> LimbMod - 1
                                           [] i = 7 -> 2560
                                           [] i = 8 -> 2
                                           [] OTHER -> 0]),
       prefix_len |-> 128],
      [addr |-> IpAddrV6([i \in 1..8 |-> IF i = 1 THEN 64768
                                         ELSE IF i = 8 THEN 2 ELSE 0]),
       prefix_len |-> 128] }

Addresses ==
    [index : {0},
     address : AddrNets,
     label : { <<>>, <<101, 116, 104, 48>> },
     flags : {0},
     scope : {0, 253},
     broadcast : {None, Some(IpAddrV4(10 * 256, 255)),
                  Some(IpAddrV6([i \in 1..8 |-> LimbMod - 1]))},
     peer : {None} \cup { Some(p) : p \in AddrPeers }]

AddrCmds == {"Add", "Replace", "Del"}

AddrHandleCalls ==
    {[fn |-> "addr_handle", cmd |-> c, index |-> 1, addr |-> a] :
        c \in AddrCmds, a \in Addresses}

\* addr_handle(cmd, index, addr)
CallAddrHandle ==
    /\ fcall.fn = "addr_handle"
    /\ fret = None
    /\ fret' = AddrHandle(fcall.cmd, fcall.index, fcall.addr)
    /\ UNCHANGED fcall
    /\ UNCHANGED <<driverVars, builderVars, codecVars, routeVars,
                   facadeVars, pairVars, kernelVars, liveVars>>

InitAddrHandle ==
    /\ DriverInit(U32(0), "release", "any")
    /\ BuilderIdle /\ CodecIdle /\ RouteIdle /\ WorldIdle
    /\ fcall \in AddrHandleCalls
    /\ fret = None

NextAddrHandle == CallAddrHandle

SpecAddrHandle == InitAddrHandle /\ [][NextAddrHandle]_vars

\* the value of the first attribute of a type in a request, None if there is
\* none
ValueOf(data, rta_type) ==
    LET is == { i \in 2..Len(data) : data[i].rt_attr.rta_type = rta_type }
    IN IF is = {} THEN None
       ELSE Some(data[CHOOSE i \in is : \A j \in is : i <= j].value)

\* the peer as the claim maps it into the family of the address
MappedPeer(addr) ==
    LET ip == addr.peer.some.addr
    IN IF ip.v = addr.address.addr.v THEN Some(ip)
       ELSE IF ip.v = "V4" THEN Some(ToIpv6Mapped(ip))
       ELSE ToIpv4(ip)

\* IFA_LOCAL is the address, IFA_ADDRESS the peer or else the address
LocalAndPeer ==
    LET addr == fcall.addr
        data == fret.val.data.some
    IN /\ ValueOf(data, IFA_LOCAL) = Some(Octets(addr.address.addr))
       /\ addr.peer = None => ValueOf(data, IFA_ADDRESS) = ValueOf(data, IFA_LOCAL)
       /\ addr.peer # None /\ MappedPeer(addr) # None =>
            ValueOf(data, IFA_ADDRESS) = Some(Octets(MappedPeer(addr).some))

\* IFA_ADDRESS has the octet length of the request's family
PeerHasFamilyLength ==
    LET data == fret.val.data.some
    IN /\ ValueOf(data, IFA_ADDRESS) # None
       /\ Len(ValueOf(data, IFA_ADDRESS).some) =
            IF data[1].family = AF_INET THEN 4 ELSE 16

\* IFA_BROADCAST for IPv4 only, IFA_LABEL for IPv4 with a label only
BroadcastAndLabel ==
    LET addr == fcall.addr
        data == fret.val.data.some
    IN /\ ValueOf(data, IFA_BROADCAST) # None <=> addr.address.addr.v = "V4"
       /\ ValueOf(data, IFA_LABEL) # None <=>
            addr.address.addr.v = "V4" /\ addr.label # <<>>

\* C38: in a request of addr_handle IFA_LOCAL carries the octets of the
\* address; IFA_ADDRESS carries the peer's octets, mapped into the family of
\* the address when the families differ, or the address when there is no
\* peer, and always has the octet length of the request's family;
\* IFA_BROADCAST is there for IPv4 only and IFA_LABEL for IPv4 with a
\* non-empty label only
C38_AddressAttributes ==
    fret # None /\ fret.st = "ok" =>
        LocalAndPeer /\ PeerHasFamilyLength /\ BroadcastAndLabel

---------------------------------------------------------------------------
(* Part 12: flat attributes serialized and decoded again                   *)
(* (src/src/message.rs).                                                   *)

\* let rt_attrs = NetlinkRouteAttr::from(&buf) on the bytes serialize made of
\* the list
AttrFromWire ==
    /\ wire # None /\ wire.st = "ok"
    /\ rbuf' = wire.val
    /\ parsed' = [fn |-> "from", ret |-> NetlinkRouteAttrFrom(wire.val, endian)]
    /\ UNCHANGED <<attrs, wire, nbuild>>
    /\ UNCHANGED <<driverVars, builderVars, routeVars, callVars,
                   facadeVars, pairVars, kernelVars, liveVars>>

NextRound ==
    \/ AttrNew
    \/ AttrSerialize
    \/ AttrFromWire

\* a caller that builds a list of attributes without children, serializes it
\* and decodes the bytes, on a target of either byte order
SpecRound == InitAttr /\ [][NextRound]_vars

\* the bytes of the list have been decoded
WireDecoded ==
    /\ wire # None /\ wire.st = "ok"
    /\ parsed # None /\ parsed.fn = "from"
    /\ rbuf = wire.val

\* C39: NetlinkRouteAttr::from of the concatenated serializations of a list
\* of attributes without children returns as many attributes, in the same
\* order, each with the type and exactly the value bytes of the one it was
\* serialized from
C39_FlatRoundTrip ==
    WireDecoded =>
        /\ parsed.ret.st = "ok"
        /\ Len(parsed.ret.val) = Len(attrs)
        /\ \A i \in 1..Len(attrs) :
             /\ parsed.ret.val[i].rt_attr.rta_type = attrs[i].rt_attr.rta_type
             /\ parsed.ret.val[i].value = attrs[i].value

====
